---------------------------- MODULE Spec2Model ----------------------------
(***************************************************************************)
(* Backtest simulation engine of the trading bot.                          *)
(*                                                                         *)
(*   Backtester.simulate / displayResults / saveResultsToFile              *)
(*       (src/unnamed/part_000, the backtest script)                       *)
(*   TradingStrategy.calculateExitPrices / calculatePositionSize           *)
(*       (src/strategy.js)                                                 *)
(*   UltraTopPerformerBacktest.openPosition / closePosition                *)
(*       (src/positionManager.js, second half)                             *)
(*                                                                         *)
(* JavaScript numbers are modelled in fixed point, every product or        *)
(* quotient rounded once where the code computes it:                       *)
(*   money     in cents            (1/100 USDT)                            *)
(*   prices    in tenths           (1/10 USDT)                             *)
(*   quantity  in 1/10000 coin                                             *)
(*   percent   in 1/100 percent                                            *)
(* so that  value = quantity * price / UnitScale.                          *)
(***************************************************************************)
EXTENDS Integers, Sequences, FiniteSets, TLC

VARIABLES
    cfg,            \* config (src/config.js), fixed for a run
    candles,        \* the candle array from index minHistory on
    i,              \* loop index, 1-based into candles
    pc,             \* position of the run: loop / cleanup / display / done / failed
    stoppedBy,      \* how the loop was left: "" / candles / maxTrades / balance / error
    balance,        \* this.results.balance
    position,       \* let position (NoPosition for null)
    trades,         \* this.results.trades
    dailyTrades,    \* let dailyTrades
    dailyLoss,      \* let dailyLoss
    peakBalance,    \* this.results.peakBalance
    maxDrawdown,    \* this.results.maxDrawdown
    lastCandle,     \* let lastCandle (NoCandle for null)
    lastTimestamp,  \* let lastTimestamp
    entryOutcome,   \* what the entry path did on the last candle gone through
    report,         \* what displayResults hands to saveResultsToFile (NoReport: none)
    balanceLog,     \* history: balance after each candle the loop went through
    marginMode,     \* UltraTopPerformerBacktest: this.marginMode
    uBalance,       \* UltraTopPerformerBacktest: this.balance
    uEffectiveBalance, \* UltraTopPerformerBacktest: this.uEffectiveBalance
    currentPosition,  \* UltraTopPerformerBacktest: this.currentPosition
    uTrades,        \* UltraTopPerformerBacktest: this.trades
    dailyStartBalance, \* UltraTopPerformerBacktest: this.dailyStartBalance
    uClock,         \* UltraTopPerformerBacktest: timestamp of the next call
    fpc,            \* fetch: idle / call (an exchange call is due) / simulate /
                    \*        noData / aborted
    totalCandlesNeeded, \* fetchHistoricalCandles: the parameter
    overlap,        \* exchange: how far before `since` its answers start
    batchIndex,     \* fetchHistoricalCandles: let i
    allCandles,     \* fetchHistoricalCandles: let allCandles (timestamps)
    since,          \* fetchHistoricalCandles: let since
    retries,        \* fetchCandlesBatch: let retries
    attempts,       \* history: exchange calls made by this fetchCandlesBatch
    calls,          \* history: exchange calls made by the whole fetch
    lastCall,       \* history: how the last exchange call ended
    fetched,        \* run: let candles, what the fetch returned
    calc,           \* a method called on its own: its arguments and what it returned
    dryRun,         \* PositionManager: this.config.bot.dryRun
    pmPosition,     \* PositionManager: this.currentPosition
    pmDailyTrades,  \* PositionManager: this.dailyTrades
    pmDailyLoss,    \* PositionManager: this.dailyLoss
    pmClock,        \* PositionManager: new Date() of the next call
    pmCall,         \* history: the last call on the PositionManager and how it ended
    cyclePc,        \* TradingBot: where each runTradingLoop call stands
    cycleOrder,     \* TradingBot: the order each call is waiting for
    buyLog,         \* history: every market buy submitted by the bot
    lostPositions,  \* history: recorded positions replaced by another buy
    ordersPlacedToday, \* UpbitListingStrategy: this.ordersPlacedToday
    openPositions,  \* UpbitListingStrategy: this.openPositions (0: no entry)
    sellTimers,     \* UpbitListingStrategy: this.sellTimers (0: no entry)
    processedTweets, \* UpbitListingStrategy: this.processedTweets
    handlers,       \* UpbitListingStrategy: the processTweet calls of the stream
    pendingTimers,  \* the setTimeout timers of scheduleAutoSell not fired yet
    sells,          \* the executeSellOrder calls waiting for the exchange
    timerIds,       \* the timers set so far
    buyOrders,      \* history: every market buy submitted by the strategy
    sellOrders,     \* history: every market sell submitted by the strategy
    sellFailed      \* history: a sell order was rejected by the exchange

btVars == <<cfg, candles, i, pc, stoppedBy, balance, position, trades,
            dailyTrades, dailyLoss, peakBalance, maxDrawdown, lastCandle,
            lastTimestamp, entryOutcome, report, balanceLog>>

ultraVars == <<marginMode, uBalance, uEffectiveBalance, currentPosition, uTrades,
               dailyStartBalance, uClock>>

fetchVars == <<fpc, totalCandlesNeeded, overlap, batchIndex, allCandles, since,
               retries, attempts, calls, lastCall, fetched>>

pmVars == <<dryRun, pmPosition, pmDailyTrades, pmDailyLoss, pmClock, pmCall>>

botVars == <<cyclePc, cycleOrder, buyLog, lostPositions>>

upbitVars == <<ordersPlacedToday, openPositions, sellTimers, processedTweets,
               handlers, pendingTimers, sells, timerIds, buyOrders, sellOrders,
               sellFailed>>

liveVars == <<botVars, upbitVars>>

vars == <<btVars, ultraVars, fetchVars, calc, pmVars, liveVars>>

----------------------------------------------------------------------------
(* Bounds of the model *)

\* candles after the minHistory warm-up
MaxCandles == 5
\* MAX_TRADES is 500 in the source (part_000:322); scaled so the gate is reached
MAX_TRADES == 2
\* candles per simulated day (getDate() changes every CandlesPerDay candles)
CandlesPerDay == 3

(* Units, and program constants in the model's units *)

\* value (cents) = quantity (1/10000) * price (1/10) / UnitScale
UnitScale == (10000 * 10) \div 100
\* a percentage keeps two decimals
PctScale == 10 * 10
\* line 406: positionValue >= 10
MinOrderValue == 1000
\* line 344: balance < 10
MinBalance == 1000

\* close prices a candle can have: a crash, the reference price, a rally
Prices == {900, 1000, 1020}

\* reasons a strategy gives with a SELL signal (src/strategy.js checkExitSignal)
SellReasons == {"Stop loss triggered", "Take profit triggered",
                "RSI overbought with profit"}

Signals == {[action |-> "BUY", reason |-> "entry"], [action |-> "HOLD", reason |-> "hold"]}
           \cup {[action |-> "SELL", reason |-> r] : r \in SellReasons}

\* src/config.js with its defaults, and environment overrides
DefaultConfig ==
    [initialBalance |-> 20000, leverage |-> 2, riskPerTrade |-> 5,
     maxPositionSize |-> 18, stopLossPercent |-> 5, takeProfitPercent |-> 18,
     maker |-> 1, taker |-> 1, maxDailyLosses |-> 3]

Configs ==
    { DefaultConfig,
      [DefaultConfig EXCEPT !.maxPositionSize = 96],
      [DefaultConfig EXCEPT !.initialBalance = 900],
      \* maxDailyLosses (3 in config.js), scaled so that a day of the model reaches it
      [DefaultConfig EXCEPT !.maxDailyLosses = 1],
      \* a 10 % fall is twice the margin
      [DefaultConfig EXCEPT !.initialBalance = 5000, !.leverage = 20,
                            !.maxPositionSize = 60],
      \* the position value stays below the minimum order value
      [DefaultConfig EXCEPT !.initialBalance = 2000],
      \* the margin is the whole balance: nothing is left for the entry fee
      [DefaultConfig EXCEPT !.riskPerTrade = 10, !.maxPositionSize = 100],
      \* the margin is more than the balance
      [DefaultConfig EXCEPT !.riskPerTrade = 10, !.maxPositionSize = 150],
      \* stops wide enough for a position to live through a 10 % fall
      [DefaultConfig EXCEPT !.stopLossPercent = 150, !.takeProfitPercent = 250] }

NoPosition == [open |-> FALSE]
NoCandle == [t |-> 0, c |-> 0]
NoReport == [produced |-> FALSE]
NoCalc == [op |-> "none"]

Timestamp(k) == k
DayOf(ts) == (ts - 1) \div CandlesPerDay

RECURSIVE CandleSeqs(_)
CandleSeqs(n) ==
    IF n = 0 THEN {<<>>}
    ELSE {Append(s, [t |-> Timestamp(n), c |-> p]) : s \in CandleSeqs(n - 1), p \in Prices}

Abs(x) == IF x < 0 THEN -x ELSE x

RECURSIVE SumProfit(_)
SumProfit(ts) == IF ts = <<>> THEN 0 ELSE ts[1].profit + SumProfit(Tail(ts))

----------------------------------------------------------------------------
(* TradingStrategy (src/strategy.js) *)

CalculateExitPrices(entryPrice) ==
    [stopLoss   |-> (entryPrice * (1000 - cfg.stopLossPercent)) \div 1000,
     takeProfit |-> (entryPrice * (1000 + cfg.takeProfitPercent)) \div 1000]

\* mutant: over the cap the value is cut but the quantity is kept
CalculatePositionSize_KeepQuantity(bal, entryPrice, stopLossPrice) ==
    LET riskAmount == (bal * cfg.riskPerTrade) \div 1000
        riskPerUnit == entryPrice - stopLossPrice
        quantity == (riskAmount * UnitScale) \div riskPerUnit
        positionValue == (quantity * entryPrice) \div UnitScale
        maxPositionValue == (bal * cfg.maxPositionSize) \div 100
    IN  IF positionValue > maxPositionValue
        THEN [quantity |-> quantity, positionValue |-> maxPositionValue]
        ELSE [quantity |-> quantity, positionValue |-> positionValue]

\* calculatePositionSize, the same in TradingStrategy (strategy.js:237-271) and
\* in SMCStrategyRefined (smc-strategy-refined.js:639-665)
CalculatePositionSize(bal, entryPrice, stopLossPrice) ==
    LET riskAmount == (bal * cfg.riskPerTrade) \div 1000
        riskPerUnit == entryPrice - stopLossPrice
        quantity == (riskAmount * UnitScale) \div riskPerUnit
        positionValue == (quantity * entryPrice) \div UnitScale
        maxPositionValue == (bal * cfg.maxPositionSize) \div 100
    IN  IF positionValue > maxPositionValue
        THEN [quantity |-> (maxPositionValue * UnitScale) \div entryPrice,
              positionValue |-> maxPositionValue]
        ELSE [quantity |-> quantity, positionValue |-> positionValue]

\* checkExitSignal, lines 173-220: the reason that goes with a SELL at
\* currentPrice
ExitReason(pos, currentPrice) ==
    IF ~pos.open THEN "RSI overbought with profit"
    ELSE IF currentPrice <= pos.stopLoss THEN "Stop loss triggered"
    ELSE IF currentPrice >= pos.takeProfit THEN "Take profit triggered"
    ELSE "RSI overbought with profit"

\* what strategy.analyze can return on a candle. The indicators (RSI, EMA,
\* volume) are not modelled, so BUY and HOLD are always possible; a strategy
\* may also hold while the price is at or below the stop loss
\* (smc-strategy-refined.js:411-417), while TradingStrategy sells there.
Analyze(pos, currentPrice) ==
    {s \in Signals : s.action = "SELL" => s.reason = ExitReason(pos, currentPrice)}

----------------------------------------------------------------------------
(* Backtester.simulate (src/unnamed/part_000) *)

MarginRequired(positionValue, leverage) == positionValue \div leverage

EntryFee(positionValue) == (positionValue * cfg.maker) \div 1000

ExitFee(exitValue) == (exitValue * cfg.taker) \div 1000

ExitValue(pos, price) == (pos.quantity * price) \div UnitScale

ProfitPercent(profit, positionValue) == (profit * 100 * PctScale) \div positionValue

\* mutant: the entry fee, already debited at entry, is taken again at the close
CloseCredit_DoubleFee(pos, profit, exitFee) == pos.marginUsed + profit - exitFee - pos.entryFee

\* the amount a normal close returns to balance
CloseCredit(pos, profit, exitFee) == pos.marginUsed + profit - exitFee

\* the trade a normal close records: exit at exitPrice
CloseTrade(pos, exitPrice, reason, ts) ==
    LET exitValue == ExitValue(pos, exitPrice)
        profit == exitValue - pos.positionValue
        exitFee == ExitFee(exitValue)
        totalFees == pos.entryFee + exitFee
    IN  [entry |-> pos.entryPrice, exit |-> exitPrice, quantity |-> pos.quantity,
         profit |-> profit - totalFees,
         profitPercent |-> ProfitPercent(profit, pos.positionValue),
         reason |-> reason, entryTime |-> pos.entryTime, exitTime |-> ts,
         duration |-> ts - pos.entryTime, fees |-> totalFees]

\* balance after a normal close at exitPrice
CloseBalance(bal, pos, exitPrice) ==
    LET exitValue == ExitValue(pos, exitPrice)
        profit == exitValue - pos.positionValue
    IN  bal + CloseCredit(pos, profit, ExitFee(exitValue))

\* mutant: the liquidated trade forgets the entry fee in its net profit
LiquidationTrade_NoFee(pos, currentPrice, ts) ==
    [entry |-> pos.entryPrice, exit |-> currentPrice, quantity |-> pos.quantity,
     profit |-> -pos.marginUsed,
     profitPercent |-> -100 * PctScale,
     reason |-> "LIQUIDATION", entryTime |-> pos.entryTime, exitTime |-> ts,
     duration |-> ts - pos.entryTime, fees |-> pos.entryFee]

LiquidationTrade(pos, currentPrice, ts) ==
    [entry |-> pos.entryPrice, exit |-> currentPrice, quantity |-> pos.quantity,
     profit |-> -pos.marginUsed - pos.entryFee,
     profitPercent |-> -100 * PctScale,
     reason |-> "LIQUIDATION", entryTime |-> pos.entryTime, exitTime |-> ts,
     duration |-> ts - pos.entryTime, fees |-> pos.entryFee]

\* unrealizedPnL <= -marginUsed * 0.9
LiquidationHit(pos, currentPrice) ==
    10 * (ExitValue(pos, currentPrice) - pos.positionValue) <= -9 * pos.marginUsed

Drawdown(peak, bal) == ((peak - bal) * 100 * PctScale) \div peak

\* the ledger fields one iteration reads and writes
Ledger == [balance |-> balance, position |-> position, trades |-> trades,
           dailyTrades |-> dailyTrades, dailyLoss |-> dailyLoss, skip |-> FALSE,
           outcome |-> "none"]

\* lines 373-380: daily counters reset on a new day
DailyReset(L, k) ==
    IF k > 1 /\ DayOf(candles[k].t) # DayOf(candles[k - 1].t)
    THEN [L EXCEPT !.dailyTrades = 0, !.dailyLoss = 0]
    ELSE L

\* a losing close counts against the day (lines 487-490, 571-574)
CountLoss(L, trade) ==
    IF trade.profit < 0
    THEN [L EXCEPT !.dailyLoss = @ + Abs(trade.profit), !.dailyTrades = @ + 1]
    ELSE L

\* mutant: the entry fee is debited before the margin + fee check
EntryPath_FeeBeforeCheck(L, currentPrice, ts) ==
    LET exits == CalculateExitPrices(currentPrice)
        leverage == cfg.leverage
        effectiveBalance == L.balance * leverage
        positionSize == CalculatePositionSize(effectiveBalance, currentPrice, exits.stopLoss)
        marginRequired == MarginRequired(positionSize.positionValue, leverage)
        entryFee == EntryFee(positionSize.positionValue)
    IN  IF positionSize.positionValue >= MinOrderValue
        THEN IF L.balance < marginRequired
             THEN [L EXCEPT !.skip = TRUE, !.outcome = "insufficientMargin"]
             ELSE IF L.balance < marginRequired + entryFee
             THEN [L EXCEPT !.skip = TRUE, !.outcome = "insufficientFees",
                            !.balance = @ - entryFee]
             ELSE [L EXCEPT
                     !.position = [open |-> TRUE, entryPrice |-> currentPrice,
                                   quantity |-> positionSize.quantity,
                                   stopLoss |-> exits.stopLoss,
                                   takeProfit |-> exits.takeProfit,
                                   entryTime |-> ts,
                                   positionValue |-> positionSize.positionValue,
                                   marginUsed |-> marginRequired,
                                   leverage |-> leverage, entryFee |-> entryFee],
                     !.balance = @ - (marginRequired + entryFee),
                     !.outcome = "opened"]
        ELSE [L EXCEPT !.outcome = "belowMinimum"]

\* lines 386-458: the entry path; skip is the `continue` of lines 418 and 431,
\* outcome the branch that was taken
EntryPath(L, currentPrice, ts) ==
    LET exits == CalculateExitPrices(currentPrice)
        leverage == cfg.leverage
        effectiveBalance == L.balance * leverage
        positionSize == CalculatePositionSize(effectiveBalance, currentPrice, exits.stopLoss)
        marginRequired == MarginRequired(positionSize.positionValue, leverage)
        entryFee == EntryFee(positionSize.positionValue)
    IN  IF positionSize.positionValue >= MinOrderValue
        THEN IF L.balance < marginRequired
             THEN [L EXCEPT !.skip = TRUE, !.outcome = "insufficientMargin"]
             ELSE IF L.balance < marginRequired + entryFee
             THEN [L EXCEPT !.skip = TRUE, !.outcome = "insufficientFees"]
             ELSE [L EXCEPT
                     !.position = [open |-> TRUE, entryPrice |-> currentPrice,
                                   quantity |-> positionSize.quantity,
                                   stopLoss |-> exits.stopLoss,
                                   takeProfit |-> exits.takeProfit,
                                   entryTime |-> ts,
                                   positionValue |-> positionSize.positionValue,
                                   marginUsed |-> marginRequired,
                                   leverage |-> leverage, entryFee |-> entryFee],
                     !.balance = @ - (marginRequired + entryFee),
                     !.outcome = "opened"]
        ELSE [L EXCEPT !.outcome = "belowMinimum"]

\* mutant: the Sell path records the trade but leaves the position open
SellPath_KeepPosition(L, signal, currentPrice, ts) ==
    LET trade == CloseTrade(L.position, currentPrice, signal.reason, ts)
    IN  CountLoss([L EXCEPT !.balance = CloseBalance(@, L.position, currentPrice),
                            !.trades = Append(@, trade)], trade)

\* lines 459-502: the explicit Sell signal closes at the candle close
SellPath(L, signal, currentPrice, ts) ==
    LET trade == CloseTrade(L.position, currentPrice, signal.reason, ts)
    IN  CountLoss([L EXCEPT !.balance = CloseBalance(@, L.position, currentPrice),
                            !.trades = Append(@, trade),
                            !.position = NoPosition], trade)

\* mutant: a Sell is followed by a new entry on the same candle
SignalPath_Reenter(L, signal, currentPrice, ts) ==
    IF signal.action = "BUY" /\ ~L.position.open /\ L.dailyTrades < cfg.maxDailyLosses
    THEN EntryPath(L, currentPrice, ts)
    ELSE IF signal.action = "SELL" /\ L.position.open
    THEN EntryPath(SellPath(L, signal, currentPrice, ts), currentPrice, ts)
    ELSE L

\* lines 386-502
SignalPath(L, signal, currentPrice, ts) ==
    IF signal.action = "BUY" /\ ~L.position.open /\ L.dailyTrades < cfg.maxDailyLosses
    THEN EntryPath(L, currentPrice, ts)
    ELSE IF signal.action = "SELL" /\ L.position.open
    THEN SellPath(L, signal, currentPrice, ts)
    ELSE L

\* mutant: stop loss / take profit are filled at the candle close
ExitChecks_AtClose(L, currentPrice, ts) ==
    IF ~L.position.open THEN L
    ELSE LET pos == L.position IN
         IF LiquidationHit(pos, currentPrice)
         THEN [L EXCEPT !.trades = Append(@, LiquidationTrade(pos, currentPrice, ts)),
                        !.position = NoPosition]
         ELSE IF currentPrice <= pos.stopLoss \/ currentPrice >= pos.takeProfit
         THEN LET reason == IF currentPrice <= pos.stopLoss
                            THEN "Stop Loss" ELSE "Take Profit"
                  trade == CloseTrade(pos, currentPrice, reason, ts)
              IN  CountLoss([L EXCEPT !.balance = CloseBalance(@, pos, currentPrice),
                                      !.trades = Append(@, trade),
                                      !.position = NoPosition], trade)
         ELSE L

\* mutant: stop loss / take profit are looked at before liquidation
ExitChecks_StopFirst(L, currentPrice, ts) ==
    IF ~L.position.open THEN L
    ELSE LET pos == L.position IN
         IF currentPrice <= pos.stopLoss \/ currentPrice >= pos.takeProfit
         THEN LET exitPrice == IF currentPrice <= pos.stopLoss
                               THEN pos.stopLoss ELSE pos.takeProfit
                  reason == IF currentPrice <= pos.stopLoss
                            THEN "Stop Loss" ELSE "Take Profit"
                  trade == CloseTrade(pos, exitPrice, reason, ts)
              IN  CountLoss([L EXCEPT !.balance = CloseBalance(@, pos, exitPrice),
                                      !.trades = Append(@, trade),
                                      !.position = NoPosition], trade)
         ELSE IF LiquidationHit(pos, currentPrice)
         THEN [L EXCEPT !.trades = Append(@, LiquidationTrade(pos, currentPrice, ts)),
                        !.position = NoPosition]
         ELSE L

\* lines 504-587: liquidation, then stop loss / take profit at the threshold price
ExitChecks(L, currentPrice, ts) ==
    IF ~L.position.open THEN L
    ELSE LET pos == L.position IN
         IF LiquidationHit(pos, currentPrice)
         THEN [L EXCEPT !.trades = Append(@, LiquidationTrade(pos, currentPrice, ts)),
                        !.position = NoPosition]
         ELSE IF currentPrice <= pos.stopLoss \/ currentPrice >= pos.takeProfit
         THEN LET exitPrice == IF currentPrice <= pos.stopLoss
                               THEN pos.stopLoss ELSE pos.takeProfit
                  reason == IF currentPrice <= pos.stopLoss
                            THEN "Stop Loss" ELSE "Take Profit"
                  trade == CloseTrade(pos, exitPrice, reason, ts)
              IN  CountLoss([L EXCEPT !.balance = CloseBalance(@, pos, exitPrice),
                                      !.trades = Append(@, trade),
                                      !.position = NoPosition], trade)
         ELSE L

\* lines 589-592
NewPeak(peak, bal) == IF bal > peak THEN bal ELSE peak

\* mutant: the latest drawdown overwrites the maximum
NewMaxDrawdown_Latest(maxDD, peak, bal) == Drawdown(peak, bal)

\* lines 594-600
NewMaxDrawdown(maxDD, peak, bal) ==
    IF Drawdown(peak, bal) > maxDD THEN Drawdown(peak, bal) ELSE maxDD

----------------------------------------------------------------------------
(* Backtester.displayResults / saveResultsToFile (src/unnamed/part_000) *)

RECURSIVE SumFees(_)
SumFees(ts) == IF ts = <<>> THEN 0 ELSE ts[1].fees + SumFees(Tail(ts))

Winning(ts) == SelectSeq(ts, LAMBDA t : t.profit > 0)
Losing(ts) == SelectSeq(ts, LAMBDA t : t.profit < 0)

\* lines 666: (winningTrades.length / totalTrades) * 100
WinRate(ts) == (Len(Winning(ts)) * 100 * PctScale) \div Len(ts)

\* lines 671-675
AvgWin(ts) == IF Len(Winning(ts)) > 0 THEN SumProfit(Winning(ts)) \div Len(Winning(ts)) ELSE 0

\* lines 676-680
AvgLoss(ts) == IF Len(Losing(ts)) > 0 THEN -(Abs(SumProfit(Losing(ts))) \div Len(Losing(ts))) ELSE 0

\* mutant: the ratio keeps its sign
ProfitFactor_Signed(ts) ==
    IF AvgLoss(ts) # 0 THEN -((Abs(AvgWin(ts)) * PctScale) \div Abs(AvgLoss(ts))) ELSE 0

\* line 682: avgLoss !== 0 ? Math.abs(avgWin / avgLoss) : 0
ProfitFactor(ts) ==
    IF AvgLoss(ts) # 0 THEN (Abs(AvgWin(ts)) * PctScale) \div Abs(AvgLoss(ts)) ELSE 0

\* lines 684-687
TotalReturn(finalBalance, initialBalance) ==
    ((finalBalance - initialBalance) * 100 * PctScale) \div initialBalance

\* lines 722-725: reduce keeps the earliest trade of maximal profit
RECURSIVE BestTrade(_, _)
BestTrade(ts, max) ==
    IF ts = <<>> THEN max
    ELSE BestTrade(Tail(ts), IF ts[1].profit > max.profit THEN ts[1] ELSE max)

\* lines 726-729
RECURSIVE WorstTrade(_, _)
WorstTrade(ts, min) ==
    IF ts = <<>> THEN min
    ELSE WorstTrade(Tail(ts), IF ts[1].profit < min.profit THEN ts[1] ELSE min)

\* mutant: the report counts the trades without the forced end-of-backtest close
BuildReport_NoForcedClose(ts) ==
    LET kept == SelectSeq(ts, LAMBDA t : t.reason # "End of backtest period")
    IN  [produced |-> TRUE,
         initialBalance |-> cfg.initialBalance,
         leverage |-> cfg.leverage,
         finalBalance |-> balance,
         totalReturn |-> TotalReturn(balance, cfg.initialBalance),
         totalProfitLoss |-> SumProfit(kept),
         totalFees |-> SumFees(kept),
         maxDrawdown |-> maxDrawdown,
         totalTrades |-> Len(kept),
         winningTrades |-> Len(Winning(kept)),
         losingTrades |-> Len(Losing(kept)),
         winRate |-> WinRate(ts),
         profitFactor |-> ProfitFactor(ts),
         avgProfit |-> SumProfit(ts) \div Len(ts),
         avgWin |-> AvgWin(ts),
         avgLoss |-> AvgLoss(ts),
         bestTrade |-> BestTrade(ts, ts[1]).profit,
         worstTrade |-> WorstTrade(ts, ts[1]).profit,
         profitable |-> TotalReturn(balance, cfg.initialBalance) > 0]

\* lines 758-774 and 787-837: the metrics and the result object written out
BuildReport(ts) ==
    [produced |-> TRUE,
     initialBalance |-> cfg.initialBalance,
     leverage |-> cfg.leverage,
     finalBalance |-> balance,
     totalReturn |-> TotalReturn(balance, cfg.initialBalance),
     totalProfitLoss |-> SumProfit(ts),
     totalFees |-> SumFees(ts),
     maxDrawdown |-> maxDrawdown,
     totalTrades |-> Len(ts),
     winningTrades |-> Len(Winning(ts)),
     losingTrades |-> Len(Losing(ts)),
     winRate |-> WinRate(ts),
     profitFactor |-> ProfitFactor(ts),
     avgProfit |-> SumProfit(ts) \div Len(ts),
     avgWin |-> AvgWin(ts),
     avgLoss |-> AvgLoss(ts),
     bestTrade |-> BestTrade(ts, ts[1]).profit,
     worstTrade |-> WorstTrade(ts, ts[1]).profit,
     profitable |-> TotalReturn(balance, cfg.initialBalance) > 0]

\* mutant: no early return, the metrics are computed over an empty trade list
ResultsOf_NoEarlyReturn(ts) ==
    IF Len(ts) = 0
    THEN [produced |-> TRUE, totalTrades |-> 0, winRate |-> "NaN", profitFactor |-> 0]
    ELSE BuildReport(ts)

\* lines 647-656: with no trade displayResults warns and returns
ResultsOf(ts) == IF Len(ts) = 0 THEN NoReport ELSE BuildReport(ts)

----------------------------------------------------------------------------
(* UltraScalpingStrategy (src/ultra-scalping-strategy.js) *)

\* config.scalpingStrategy.stopLossPercent / takeProfitPercent, in 1/10 percent
UltraStopLossPercent == 4
UltraTakeProfitPercent == 8

UltraExitPrices(entryPrice) ==
    [stopLoss   |-> (entryPrice * (1000 - UltraStopLossPercent)) \div 1000,
     takeProfit |-> (entryPrice * (1000 + UltraTakeProfitPercent)) \div 1000]

\* lines 806-858; bal is the caller's this.effectiveBalance
UltraPositionSize(bal, entryPrice, stopLoss) ==
    LET leverage == cfg.leverage
        effBal == bal * leverage
        baseRisk == IF marginMode = "cross" THEN 5 ELSE 9
        riskAmount == (bal * baseRisk * leverage) \div 1000
        riskPerShare == entryPrice - stopLoss
        quantity == (riskAmount * UnitScale) \div riskPerShare
        positionValue == (quantity * entryPrice) \div UnitScale
        maxPct == IF marginMode = "cross" THEN 20 ELSE 30
        maxPositionValue == (effBal * maxPct) \div (100 * leverage)
        finalPositionValue == IF positionValue < maxPositionValue
                              THEN positionValue ELSE maxPositionValue
    IN  [quantity |-> (finalPositionValue * UnitScale) \div entryPrice,
         positionValue |-> finalPositionValue]

----------------------------------------------------------------------------
(* UltraTopPerformerBacktest (src/positionManager.js) *)

MaxUltraTrades == 3

\* line 1034: Math.max(this.uEffectiveBalance * 0.05, 5)
UltraMinPositionValue ==
    IF (uEffectiveBalance * 5) \div 100 > 500 THEN (uEffectiveBalance * 5) \div 100 ELSE 500

\* lines 1058-1060: isolated margin escrows the position value
BalanceAfterOpen(bal, positionValue) ==
    IF marginMode = "isolated" THEN bal - positionValue ELSE bal

\* lines 1094-1101: gross profit, fees on the position value, net profit
UltraNetProfit(pos, exitPrice) ==
    ((exitPrice - pos.entryPrice) * pos.quantity) \div UnitScale
        - (pos.positionValue * 2) \div 1000

\* line 1104: this.balance += netProfit
BalanceAfterClose(bal, pos, exitPrice) == bal + UltraNetProfit(pos, exitPrice)

\* overlapping runTradingLoop calls looked at
MaxCycles == 3

\* processTweet calls looked at
MaxTweets == 3

\* the symbols a listing tweet can name
Symbols == {"AAA", "BBB"}

\* the TradingBot loop, not started by the backtests
BotIdle ==
    /\ cyclePc = [c \in 1..MaxCycles |-> "idle"]
    /\ cycleOrder = [c \in 1..MaxCycles |-> [quantity |-> 0]]
    /\ buyLog = <<>>
    /\ lostPositions = 0

\* the UpbitListingStrategy after its constructor (lines 20-35 of
\* src/upbit-listing-strategy.js), with no tweet received
UpbitIdle ==
    /\ ordersPlacedToday = 0
    /\ openPositions = [s \in Symbols |-> 0]
    /\ sellTimers = [s \in Symbols |-> 0]
    /\ processedTweets = {}
    /\ handlers = [h \in 1..MaxTweets |-> [pc |-> "idle"]]
    /\ pendingTimers = {}
    /\ sells = {}
    /\ timerIds = 0
    /\ buyOrders = <<>>
    /\ sellOrders = <<>>
    /\ sellFailed = FALSE

LiveIdle == BotIdle /\ UpbitIdle

\* the PositionManager of the live bot, not used by the backtests
ManagerIdle ==
    /\ dryRun = TRUE
    /\ pmPosition = NoPosition
    /\ pmDailyTrades = <<>>
    /\ pmDailyLoss = 0
    /\ pmClock = 0
    /\ pmCall = [op |-> "none", outcome |-> "none"]

\* the fetch's variables, at rest while a simulation runs
FetchIdle ==
    /\ fpc = "idle"
    /\ totalCandlesNeeded = 0
    /\ overlap = 0
    /\ batchIndex = 0
    /\ allCandles = <<>>
    /\ since = 0
    /\ retries = 0
    /\ attempts = 0
    /\ calls = 0
    /\ lastCall = "none"
    /\ fetched = <<>>

UltraIdle ==
    /\ marginMode = "isolated"
    /\ uBalance = 0
    /\ uEffectiveBalance = 0
    /\ currentPosition = NoPosition
    /\ uTrades = <<>>
    /\ dailyStartBalance = 0
    /\ uClock = 0

\* the backtester's variables, at rest while the ultra backtest runs
BacktesterIdle ==
    /\ candles = <<>>
    /\ i = 1
    /\ pc = "idle"
    /\ stoppedBy = ""
    /\ balance = cfg.initialBalance
    /\ position = NoPosition
    /\ trades = <<>>
    /\ dailyTrades = 0
    /\ dailyLoss = 0
    /\ peakBalance = cfg.initialBalance
    /\ maxDrawdown = 0
    /\ lastCandle = NoCandle
    /\ lastTimestamp = 0
    /\ entryOutcome = "none"
    /\ report = NoReport
    /\ balanceLog = <<>>

\* constructor, lines 353-375
InitUltra ==
    /\ cfg = DefaultConfig
    /\ BacktesterIdle
    /\ FetchIdle
    /\ ManagerIdle
    /\ LiveIdle
    /\ calc = NoCalc
    /\ marginMode \in {"isolated", "cross"}
    /\ uBalance = cfg.initialBalance
    /\ uEffectiveBalance = cfg.initialBalance * cfg.leverage
    /\ currentPosition = NoPosition
    /\ uTrades = <<>>
    /\ dailyStartBalance = cfg.initialBalance
    /\ uClock = 1

\* openPosition (lines 1023-1081), called on BUY with no position (line 1009)
OpenPosition ==
    /\ pc = "idle"
    /\ ~currentPosition.open
    /\ Len(uTrades) < MaxUltraTrades
    /\ \E price \in Prices :
         LET exits == UltraExitPrices(price)
             positionSize == UltraPositionSize(uEffectiveBalance, price, exits.stopLoss)
         IN  IF positionSize.positionValue < UltraMinPositionValue
             THEN UNCHANGED <<currentPosition, uBalance>>
             ELSE /\ currentPosition' =
                        [open |-> TRUE, entryPrice |-> price,
                         quantity |-> positionSize.quantity,
                         stopLoss |-> exits.stopLoss, takeProfit |-> exits.takeProfit,
                         timestamp |-> uClock,
                         positionValue |-> positionSize.positionValue]
                  /\ uBalance' = BalanceAfterOpen(uBalance, positionSize.positionValue)
    /\ uClock' = uClock + 1
    /\ UNCHANGED <<marginMode, uEffectiveBalance, uTrades, dailyStartBalance>>
    /\ UNCHANGED btVars
    /\ UNCHANGED fetchVars
    /\ UNCHANGED <<calc, pmVars, liveVars>>

\* this.dailyLossLimit (line 404), in percent
UltraDailyLossLimit == 2

\* lines 762-764: dailyReturn < -this.dailyLossLimit
DailyLossLimitReached(bal, startBalance) ==
    (bal - startBalance) * 100 < -UltraDailyLossLimit * startBalance

\* the trade closePosition records (lines 1107-1120); a null timestamp is
\* Date.now(), here the clock
UltraTrade(pos, reason, actualExitPrice) ==
    [entryPrice |-> pos.entryPrice, exitPrice |-> actualExitPrice,
     quantity |-> pos.quantity, profit |-> UltraNetProfit(pos, actualExitPrice),
     fees |-> (pos.positionValue * 2) \div 1000, reason |-> reason,
     entryTime |-> pos.timestamp, exitTime |-> uClock]

\* closePosition (lines 1086-1178): on a SELL signal at the candle close (line
\* 1010), or with a null exitPrice, written 0, when the top performer changes
\* (line 958), which falls back to the stop loss
ClosePosition ==
    /\ pc = "idle"
    /\ currentPosition.open
    /\ \E exitPrice \in Prices \cup {0} :
         LET pos == currentPosition
             actualExitPrice == IF exitPrice # 0 THEN exitPrice ELSE pos.stopLoss
             reason == IF exitPrice # 0 THEN "Signal exit"
                       ELSE "Switching to top performer"
         IN  /\ uBalance' = BalanceAfterClose(uBalance, pos, actualExitPrice)
             /\ uEffectiveBalance' = BalanceAfterClose(uBalance, pos, actualExitPrice) * cfg.leverage
             /\ uTrades' = Append(uTrades, UltraTrade(pos, reason, actualExitPrice))
    /\ currentPosition' = NoPosition
    /\ uClock' = uClock + 1
    /\ UNCHANGED <<marginMode, dailyStartBalance>>
    /\ UNCHANGED btVars
    /\ UNCHANGED fetchVars
    /\ UNCHANGED <<calc, pmVars, liveVars>>

\* processBacktestDays, the end of a day (lines 761-772) and the start of the
\* next (lines 697-699): past the daily loss limit an open position is closed,
\* with no exitPrice, so at its stop loss; the next day starts from the balance
EndOfDay ==
    /\ pc = "idle"
    /\ Len(uTrades) < MaxUltraTrades
    /\ IF DailyLossLimitReached(uBalance, dailyStartBalance) /\ currentPosition.open
       THEN LET pos == currentPosition
                closed == BalanceAfterClose(uBalance, pos, pos.stopLoss)
            IN  /\ uBalance' = closed
                /\ uEffectiveBalance' = closed * cfg.leverage
                /\ uTrades' = Append(uTrades,
                       UltraTrade(pos, "Daily loss limit reached", pos.stopLoss))
                /\ currentPosition' = NoPosition
                /\ dailyStartBalance' = closed
                /\ uClock' = uClock + 1
       ELSE /\ dailyStartBalance' = uBalance
            /\ UNCHANGED <<uBalance, uEffectiveBalance, uTrades, currentPosition, uClock>>
    /\ UNCHANGED marginMode
    /\ UNCHANGED btVars
    /\ UNCHANGED fetchVars
    /\ UNCHANGED <<calc, pmVars, liveVars>>

NextUltra == OpenPosition \/ ClosePosition \/ EndOfDay

SpecUltra == InitUltra /\ [][NextUltra]_vars

----------------------------------------------------------------------------
(* Backtester.fetchHistoricalCandles / fetchCandlesBatch / removeDuplicateCandles *)
(* (src/unnamed/part_000). A candle is its timestamp, counted in timeframes.  *)

\* BATCH_SIZE is 1000 in the source (line 86); scaled
BATCH_SIZE == 3
\* the largest totalCandlesNeeded
MaxNeeded == 7
\* where an exchange starts its answer: at `since`, or one candle before it
\* (a boundary taken inclusively, the overlap of the comment at line 156)
Overlaps == {0, 1}
\* line 166: let retries = 3
InitialRetries == 3

\* Date.now(): the exchange has the candles 1 .. Now
Now == MaxNeeded + 1
\* the `since` of the single-batch call (line 95)
Undefined == 0 - 1

\* line 101: Math.ceil(totalCandlesNeeded / BATCH_SIZE)
Batches(n) == (n + BATCH_SIZE - 1) \div BATCH_SIZE

Max2(a, b) == IF a > b THEN a ELSE b

Run(start, n) == [k \in 1..n |-> start + k - 1]

\* exchange.fetchOHLCV(symbol, timeframe, since, limit) when it succeeds: up to
\* limit consecutive candles, ascending, from `since` on (from a little before
\* it for an exchange that rounds `since` down), or the latest ones when
\* `since` is undefined
FetchOHLCV(s, limit) ==
    LET start == IF s = Undefined THEN Max2(1, Now - limit + 1)
                 ELSE Max2(1, s - overlap)
        avail == IF start > Now THEN 0 ELSE Now - start + 1
        most == IF limit < avail THEN limit ELSE avail
    IN  {Run(start, n) : n \in 0..most}

RECURSIVE RemoveDuplicatesSeen(_, _)
RemoveDuplicatesSeen(cs, seen) ==
    IF cs = <<>> THEN <<>>
    ELSE IF cs[1] \in seen THEN RemoveDuplicatesSeen(Tail(cs), seen)
    ELSE <<cs[1]>> \o RemoveDuplicatesSeen(Tail(cs), seen \cup {cs[1]})

\* mutant: duplicates are kept
RemoveDuplicateCandles_Keep(cs) == cs

\* lines 191-201: the first candle of each timestamp is kept, in order
RemoveDuplicateCandles(cs) == RemoveDuplicatesSeen(cs, {})

\* Array.prototype.slice(-n)
SliceLast(cs, n) ==
    IF n = 0 \/ Len(cs) <= n THEN cs ELSE SubSeq(cs, Len(cs) - n + 1, Len(cs))

\* lines 156-159
StitchedResult(all, n) == SliceLast(RemoveDuplicateCandles(all), n)

\* run, lines 254-264: no candle ends the run, otherwise simulate is called
AfterFetch(cs) == IF Len(cs) = 0 THEN "noData" ELSE "simulate"

\* mutant: one more attempt is made
Exhausted_OneMore(retriesLeft) == retriesLeft = 0 - 1

\* line 179: if (retries === 0) throw error
Exhausted(retriesLeft) == retriesLeft = 0

\* mutant: a failed batch always aborts
OnBatchFailure_Throw(all) == "throw"

\* lines 144-153: a failed batch ends the fetch with what was gathered, or is
\* rethrown when nothing was
OnBatchFailure(all) == IF Len(all) > 0 THEN "break" ELSE "throw"

\* run calls fetchHistoricalCandles (line 248), which is at its first exchange
\* call: the single-batch one (lines 90-98) or batch 1 of the loop (106-119)
InitFetch ==
    /\ cfg = DefaultConfig
    /\ BacktesterIdle
    /\ UltraIdle
    /\ ManagerIdle
    /\ LiveIdle
    /\ totalCandlesNeeded \in 1..MaxNeeded
    /\ overlap \in Overlaps
    /\ fpc = "call"
    /\ batchIndex = 0
    /\ allCandles = <<>>
    /\ since = IF totalCandlesNeeded <= BATCH_SIZE THEN Undefined
               ELSE Now - totalCandlesNeeded
    /\ retries = InitialRetries
    /\ attempts = 0
    /\ calls = 0
    /\ lastCall = "none"
    /\ fetched = <<>>
    /\ calc = NoCalc

\* fetchOHLCV returns (line 176), and what follows up to the next exchange
\* call or the return to run: lines 92-98 for a single batch, lines 121-143
\* and 156-159 in the loop
ExchangeReturns ==
    /\ fpc = "call"
    /\ calls' = calls + 1
    /\ lastCall' = "ok"
    /\ IF totalCandlesNeeded <= BATCH_SIZE
       THEN \E batch \in FetchOHLCV(since, totalCandlesNeeded) :
              /\ fetched' = batch
              /\ fpc' = AfterFetch(batch)
              /\ attempts' = attempts + 1
              /\ UNCHANGED <<allCandles, since, batchIndex, retries>>
       ELSE \E batch \in FetchOHLCV(since, BATCH_SIZE) :
              LET all == allCandles \o batch
                  result == StitchedResult(all, totalCandlesNeeded)
              IN  IF Len(batch) = 0
                  THEN /\ fetched' = result
                       /\ fpc' = AfterFetch(result)
                       /\ attempts' = attempts + 1
                       /\ UNCHANGED <<allCandles, since, batchIndex, retries>>
                  ELSE /\ allCandles' = all
                       /\ since' = batch[Len(batch)] + 1
                       /\ IF Len(all) >= totalCandlesNeeded
                             \/ batchIndex + 1 >= Batches(totalCandlesNeeded)
                          THEN /\ fetched' = result
                               /\ fpc' = AfterFetch(result)
                               /\ attempts' = attempts + 1
                               /\ UNCHANGED <<batchIndex, retries>>
                          ELSE /\ batchIndex' = batchIndex + 1
                               /\ retries' = InitialRetries
                               /\ attempts' = 0
                               /\ UNCHANGED <<fpc, fetched>>
    /\ UNCHANGED <<totalCandlesNeeded, overlap>>
    /\ UNCHANGED <<btVars, ultraVars>>
    /\ UNCHANGED <<calc, pmVars, liveVars>>

\* fetchOHLCV throws (lines 177-184): another attempt, or, the retries used
\* up, the throw of line 180, which leaves a single-batch fetch for the catch
\* of run (line 268) and is caught in the loop at line 144
ExchangeFails ==
    /\ fpc = "call"
    /\ calls' = calls + 1
    /\ attempts' = attempts + 1
    /\ lastCall' = "failed"
    /\ retries' = retries - 1
    /\ IF ~Exhausted(retries - 1)
       THEN UNCHANGED <<fpc, fetched>>
       ELSE IF totalCandlesNeeded > BATCH_SIZE /\ OnBatchFailure(allCandles) = "break"
       THEN /\ fetched' = StitchedResult(allCandles, totalCandlesNeeded)
            /\ fpc' = AfterFetch(StitchedResult(allCandles, totalCandlesNeeded))
       ELSE /\ fpc' = "aborted"
            /\ UNCHANGED fetched
    /\ UNCHANGED <<totalCandlesNeeded, overlap, batchIndex, allCandles, since>>
    /\ UNCHANGED <<btVars, ultraVars>>
    /\ UNCHANGED <<calc, pmVars, liveVars>>

NextFetch == ExchangeReturns \/ ExchangeFails

SpecFetch == InitFetch /\ [][NextFetch]_vars

\* the awaited exchange call settles: it resolves or it rejects
SpecFetchFair == SpecFetch /\ WF_vars(NextFetch)

----------------------------------------------------------------------------
(* Backtester.run: simulate, then displayResults *)

Init ==
    /\ cfg \in Configs
    /\ candles \in UNION {CandleSeqs(n) : n \in 0..MaxCandles}
    /\ i = 1
    /\ pc = "loop"
    /\ stoppedBy = ""
    /\ balance = cfg.initialBalance
    /\ position = NoPosition
    /\ trades = <<>>
    /\ dailyTrades = 0
    /\ dailyLoss = 0
    /\ peakBalance = cfg.initialBalance
    /\ maxDrawdown = 0
    /\ lastCandle = NoCandle
    /\ lastTimestamp = 0
    /\ entryOutcome = "none"
    /\ report = NoReport
    /\ balanceLog = <<>>
    /\ UltraIdle
    /\ FetchIdle
    /\ ManagerIdle
    /\ LiveIdle
    /\ calc = NoCalc

\* line 328: the loop condition fails
OutOfCandles ==
    /\ pc = "loop"
    /\ i > Len(candles)
    /\ pc' = "cleanup"
    /\ stoppedBy' = "candles"
    /\ UNCHANGED <<cfg, candles, i, balance, position, trades, dailyTrades, dailyLoss,
                   peakBalance, maxDrawdown, lastCandle, lastTimestamp, entryOutcome,
                   report, balanceLog>>
    /\ UNCHANGED ultraVars
    /\ UNCHANGED fetchVars
    /\ UNCHANGED <<calc, pmVars, liveVars>>

\* lines 330-341: trade-count ceiling
MaxTradesGate ==
    /\ pc = "loop"
    /\ i <= Len(candles)
    /\ Len(trades) >= MAX_TRADES
    /\ pc' = "cleanup"
    /\ stoppedBy' = "maxTrades"
    /\ UNCHANGED <<cfg, candles, i, balance, position, trades, dailyTrades, dailyLoss,
                   peakBalance, maxDrawdown, lastCandle, lastTimestamp, entryOutcome,
                   report, balanceLog>>
    /\ UNCHANGED ultraVars
    /\ UNCHANGED fetchVars
    /\ UNCHANGED <<calc, pmVars, liveVars>>

\* lines 344-354: balance floor
BalanceGate ==
    /\ pc = "loop"
    /\ i <= Len(candles)
    /\ Len(trades) < MAX_TRADES
    /\ balance < MinBalance
    /\ pc' = "cleanup"
    /\ stoppedBy' = "balance"
    /\ UNCHANGED <<cfg, candles, i, balance, position, trades, dailyTrades, dailyLoss,
                   peakBalance, maxDrawdown, lastCandle, lastTimestamp, entryOutcome,
                   report, balanceLog>>
    /\ UNCHANGED ultraVars
    /\ UNCHANGED fetchVars
    /\ UNCHANGED <<calc, pmVars, liveVars>>

\* lines 364-600: one iteration of the loop on candle i
ProcessCandle ==
    /\ pc = "loop"
    /\ i <= Len(candles)
    /\ Len(trades) < MAX_TRADES
    /\ balance >= MinBalance
    /\ \E signal \in Analyze(position, candles[i].c) :
       \* L1: the ledger after the signal was acted on; L2: after the exit checks,
       \* which the `continue` of a rejected entry skips with the drawdown tracking
       \E L1 \in {SignalPath(DailyReset(Ledger, i), signal, candles[i].c, candles[i].t)} :
       \E L2 \in {IF L1.skip THEN L1 ELSE ExitChecks(L1, candles[i].c, candles[i].t)} :
         LET currentCandle == candles[i]
             timestamp == currentCandle.t
             peak == IF L1.skip THEN peakBalance ELSE NewPeak(peakBalance, L2.balance)
         IN  /\ lastCandle' = currentCandle
             /\ lastTimestamp' = timestamp
             /\ balance' = L2.balance
             /\ position' = L2.position
             /\ trades' = L2.trades
             /\ dailyTrades' = L2.dailyTrades
             /\ dailyLoss' = L2.dailyLoss
             /\ peakBalance' = peak
             /\ maxDrawdown' = IF L1.skip THEN maxDrawdown
                               ELSE NewMaxDrawdown(maxDrawdown, peak, L2.balance)
             /\ entryOutcome' = L2.outcome
             /\ balanceLog' = Append(balanceLog, L2.balance)
    /\ i' = i + 1
    /\ UNCHANGED <<cfg, candles, pc, stoppedBy, report>>
    /\ UNCHANGED ultraVars
    /\ UNCHANGED fetchVars
    /\ UNCHANGED <<calc, pmVars, liveVars>>

\* line 383: strategy.analyze throws on candle i. simulate has no try/catch, so
\* the throw leaves the loop and simulate, and is caught in run (lines 268-301),
\* which logs "Backtest failed" and returns: the end-of-backtest close and
\* displayResults are not reached. lastCandle and the daily reset (lines
\* 370-380) were already done when analyze was called.
AnalyzeThrows ==
    /\ pc = "loop"
    /\ i <= Len(candles)
    /\ Len(trades) < MAX_TRADES
    /\ balance >= MinBalance
    /\ lastCandle' = candles[i]
    /\ lastTimestamp' = candles[i].t
    /\ dailyTrades' = DailyReset(Ledger, i).dailyTrades
    /\ dailyLoss' = DailyReset(Ledger, i).dailyLoss
    /\ pc' = "failed"
    /\ stoppedBy' = "error"
    /\ UNCHANGED <<cfg, candles, i, balance, position, trades, peakBalance,
                   maxDrawdown, entryOutcome, report, balanceLog>>
    /\ UNCHANGED ultraVars
    /\ UNCHANGED fetchVars
    /\ UNCHANGED <<calc, pmVars, liveVars>>

\* mutant: the loop's end leaves the open position alone
EndOfBacktest_NoClose ==
    /\ pc = "cleanup"
    /\ pc' = "display"
    /\ UNCHANGED <<cfg, candles, i, stoppedBy, balance, position, trades, dailyTrades,
                   dailyLoss, peakBalance, maxDrawdown, lastCandle, lastTimestamp,
                   entryOutcome, report, balanceLog>>
    /\ UNCHANGED ultraVars
    /\ UNCHANGED fetchVars
    /\ UNCHANGED <<calc, pmVars, liveVars>>

\* lines 603-641: close whatever is still open at the last candle seen
EndOfBacktest ==
    /\ pc = "cleanup"
    /\ IF position.open /\ lastCandle # NoCandle
       THEN /\ balance' = CloseBalance(balance, position, lastCandle.c)
            /\ trades' = Append(trades, CloseTrade(position, lastCandle.c,
                                                   "End of backtest period", lastTimestamp))
            /\ position' = NoPosition
       ELSE UNCHANGED <<balance, position, trades>>
    /\ pc' = "display"
    /\ UNCHANGED <<cfg, candles, i, stoppedBy, dailyTrades, dailyLoss, peakBalance,
                   maxDrawdown, lastCandle, lastTimestamp, entryOutcome, report,
                   balanceLog>>
    /\ UNCHANGED ultraVars
    /\ UNCHANGED fetchVars
    /\ UNCHANGED <<calc, pmVars, liveVars>>

\* lines 647-775: displayResults, which ends in saveResultsToFile
DisplayResults ==
    /\ pc = "display"
    /\ report' = ResultsOf(trades)
    /\ pc' = "done"
    /\ UNCHANGED <<cfg, candles, i, stoppedBy, balance, position, trades, dailyTrades,
                   dailyLoss, peakBalance, maxDrawdown, lastCandle, lastTimestamp,
                   entryOutcome, balanceLog>>
    /\ UNCHANGED ultraVars
    /\ UNCHANGED fetchVars
    /\ UNCHANGED <<calc, pmVars, liveVars>>

Next ==
    \/ OutOfCandles
    \/ MaxTradesGate
    \/ BalanceGate
    \/ ProcessCandle
    \/ AnalyzeThrows
    \/ EndOfBacktest
    \/ DisplayResults

Spec == Init /\ [][Next]_vars

----------------------------------------------------------------------------
(* Backtester.simulate run on two candle arrays with one deterministic        *)
(* strategy: the run of the state variables and a second run kept in calc     *)

\* candles of each of the two arrays
PairCandles == 4

\* mutant: analyze is handed the whole array
HistoricalCandles_Whole(cs, k) == cs

\* line 364: candles.slice(0, i + 1), the window handed to analyze
HistoricalCandles(cs, k) == SubSeq(cs, 1, k)

\* strategy.js:40-61: the indicators are computed from the closes of the
\* candles analyze receives. Stand-ins for them: the close rose over the
\* candle before (the EMA crossover), the close is the lowest so far (RSI
\* oversold)
Rose(history) ==
    Len(history) >= 2 /\ history[Len(history)].c > history[Len(history) - 1].c

Lowest(history) ==
    \A k \in 1..Len(history) : history[Len(history)].c <= history[k].c

StrategyKinds == {"crossover", "oversold"}

\* TradingStrategy.analyze (strategy.js:25-79) as a function of what it is
\* given: currentPrice is the close of the last candle of the window (line
\* 59); with a position checkExitSignal (158-229), without checkEntrySignal
\* (84-156)
TradingStrategyAnalyze(kind, history, pos) ==
    LET currentPrice == history[Len(history)].c
    IN  IF pos.open
        THEN IF currentPrice <= pos.stopLoss
             THEN [action |-> "SELL", reason |-> "Stop loss triggered"]
             ELSE IF currentPrice >= pos.takeProfit
             THEN [action |-> "SELL", reason |-> "Take profit triggered"]
             ELSE IF Rose(history) /\ currentPrice > pos.entryPrice
             THEN [action |-> "SELL", reason |-> "RSI overbought with profit"]
             ELSE [action |-> "HOLD", reason |-> "hold"]
        ELSE IF (kind = "crossover" /\ Rose(history))
                \/ (kind = "oversold" /\ Lowest(history))
             THEN [action |-> "BUY", reason |-> "entry"]
             ELSE [action |-> "HOLD", reason |-> "hold"]

\* the ledger of the run of the state variables
MainLedger ==
    [balance |-> balance, position |-> position, trades |-> trades,
     dailyTrades |-> dailyTrades, dailyLoss |-> dailyLoss,
     peakBalance |-> peakBalance, maxDrawdown |-> maxDrawdown]

\* lines 364-600: one iteration on candle k of the array cs, from the ledger
\* S. The two arrays carry the same timestamps, so the daily reset of lines
\* 373-380 is the same for both.
Iteration(S, cs, k, kind) ==
    LET signal == TradingStrategyAnalyze(kind, HistoricalCandles(cs, k), S.position)
        L0 == [balance |-> S.balance, position |-> S.position, trades |-> S.trades,
               dailyTrades |-> S.dailyTrades, dailyLoss |-> S.dailyLoss,
               skip |-> FALSE, outcome |-> "none"]
        L1 == SignalPath(DailyReset(L0, k), signal, cs[k].c, cs[k].t)
        L2 == IF L1.skip THEN L1 ELSE ExitChecks(L1, cs[k].c, cs[k].t)
        peak == IF L1.skip THEN S.peakBalance ELSE NewPeak(S.peakBalance, L2.balance)
    IN  [balance |-> L2.balance, position |-> L2.position, trades |-> L2.trades,
         dailyTrades |-> L2.dailyTrades, dailyLoss |-> L2.dailyLoss,
         peakBalance |-> peak,
         maxDrawdown |-> IF L1.skip THEN S.maxDrawdown
                         ELSE NewMaxDrawdown(S.maxDrawdown, peak, L2.balance)]

\* lines 330-354: neither safety gate stops the run
PassesGates(S) == Len(S.trades) < MAX_TRADES /\ S.balance >= MinBalance

PairConfigs ==
    { DefaultConfig,
      [DefaultConfig EXCEPT !.initialBalance = 5000, !.leverage = 20,
                            !.maxPositionSize = 60] }

InitPair ==
    /\ cfg \in PairConfigs
    /\ candles \in CandleSeqs(PairCandles)
    /\ i = 1
    /\ pc = "loop"
    /\ stoppedBy = ""
    /\ balance = cfg.initialBalance
    /\ position = NoPosition
    /\ trades = <<>>
    /\ dailyTrades = 0
    /\ dailyLoss = 0
    /\ peakBalance = cfg.initialBalance
    /\ maxDrawdown = 0
    /\ lastCandle = NoCandle
    /\ lastTimestamp = 0
    /\ entryOutcome = "none"
    /\ report = NoReport
    /\ balanceLog = <<>>
    /\ UltraIdle
    /\ FetchIdle
    /\ ManagerIdle
    /\ LiveIdle
    /\ \E kind \in StrategyKinds, cs \in CandleSeqs(PairCandles) :
         calc = [op |-> "second run", strategy |-> kind, candles |-> cs,
                 ledger |-> [balance |-> cfg.initialBalance, position |-> NoPosition,
                             trades |-> <<>>, dailyTrades |-> 0, dailyLoss |-> 0,
                             peakBalance |-> cfg.initialBalance, maxDrawdown |-> 0]]

\* both runs go through candle i, as long as the two arrays were the same up
\* to the candle before
ProcessCandlePair ==
    /\ pc = "loop"
    /\ i <= Len(candles)
    /\ SubSeq(candles, 1, i - 1) = SubSeq(calc.candles, 1, i - 1)
    /\ PassesGates(MainLedger)
    /\ PassesGates(calc.ledger)
    /\ \E M \in {Iteration(MainLedger, candles, i, calc.strategy)} :
         /\ balance' = M.balance
         /\ position' = M.position
         /\ trades' = M.trades
         /\ dailyTrades' = M.dailyTrades
         /\ dailyLoss' = M.dailyLoss
         /\ peakBalance' = M.peakBalance
         /\ maxDrawdown' = M.maxDrawdown
         /\ balanceLog' = Append(balanceLog, M.balance)
    /\ calc' = [calc EXCEPT !.ledger = Iteration(calc.ledger, calc.candles, i, calc.strategy)]
    /\ lastCandle' = candles[i]
    /\ lastTimestamp' = candles[i].t
    /\ i' = i + 1
    /\ UNCHANGED <<cfg, candles, pc, stoppedBy, entryOutcome, report>>
    /\ UNCHANGED <<ultraVars, fetchVars, pmVars, liveVars>>

NextPair == ProcessCandlePair

SpecPair == InitPair /\ [][NextPair]_vars

----------------------------------------------------------------------------
(* PositionManager (src/positionManager.js, first half): executeBuy and       *)
(* executeSell called in any order                                            *)

\* calls made on one PositionManager
MaxManagerCalls == 4

\* order quantities, in 1/10000 coin
Quantities == {1000, 2500}

\* constructor, lines 7-14
InitManager ==
    /\ cfg = DefaultConfig
    /\ BacktesterIdle
    /\ UltraIdle
    /\ FetchIdle
    /\ calc = NoCalc
    /\ dryRun \in BOOLEAN
    /\ pmPosition = NoPosition
    /\ pmDailyTrades = <<>>
    /\ pmDailyLoss = 0
    /\ pmClock = 1
    /\ pmCall = [op |-> "none", outcome |-> "none"]
    /\ LiveIdle

\* executeBuy (lines 76-136): the position it builds, in dry run and from the
\* filled order alike
BoughtPosition(quantity, price) ==
    [open |-> TRUE, quantity |-> quantity, entryPrice |-> price,
     stopLoss |-> CalculateExitPrices(price).stopLoss,
     takeProfit |-> CalculateExitPrices(price).takeProfit,
     entryTime |-> pmClock,
     positionValue |-> (quantity * price) \div UnitScale]

\* executeBuy returns: this.currentPosition is assigned, whatever it was
ExecuteBuy ==
    /\ pc = "idle"
    /\ pmClock <= MaxManagerCalls
    /\ \E quantity \in Quantities, price \in Prices :
         pmPosition' = BoughtPosition(quantity, price)
    /\ pmCall' = [op |-> "executeBuy", outcome |-> "position"]
    /\ pmClock' = pmClock + 1
    /\ UNCHANGED <<dryRun, pmDailyTrades, pmDailyLoss>>
    /\ UNCHANGED <<btVars, ultraVars, fetchVars, calc, liveVars>>

\* executeBuy or executeSell outside dry run: the exchange order is rejected
\* and the error is rethrown (lines 128-135, 208-215); executeSell gets as far
\* as the order only with a position
OrderThrows ==
    /\ pc = "idle"
    /\ pmClock <= MaxManagerCalls
    /\ ~dryRun
    /\ \E op \in {"executeBuy", "executeSell"} :
         /\ op = "executeSell" => pmPosition.open
         /\ pmCall' = [op |-> op, outcome |-> "order failed"]
    /\ pmClock' = pmClock + 1
    /\ UNCHANGED <<dryRun, pmPosition, pmDailyTrades, pmDailyLoss>>
    /\ UNCHANGED <<btVars, ultraVars, fetchVars, calc, liveVars>>

\* the trade executeSell records (lines 155-157, 162-173)
SoldTrade(pos, quantity, price, reason) ==
    [entryPrice |-> pos.entryPrice, exitPrice |-> price, quantity |-> quantity,
     profit |-> ((price - pos.entryPrice) * quantity) \div UnitScale,
     reason |-> reason, entryTime |-> pos.entryTime, exitTime |-> pmClock]

\* executeSell (lines 141-216) returns: null without a position (lines
\* 143-146), otherwise the trade, recorded by recordTrade (lines 221-226)
ExecuteSell ==
    /\ pc = "idle"
    /\ pmClock <= MaxManagerCalls
    /\ IF ~pmPosition.open
       THEN /\ pmCall' = [op |-> "executeSell", outcome |-> "null"]
            /\ UNCHANGED <<pmPosition, pmDailyTrades, pmDailyLoss>>
       ELSE \E price \in Prices :
              LET trade == SoldTrade(pmPosition, pmPosition.quantity, price, "signal")
              IN  /\ pmDailyTrades' = Append(pmDailyTrades, trade)
                  /\ pmDailyLoss' = IF trade.profit < 0
                                    THEN pmDailyLoss + Abs(trade.profit)
                                    ELSE pmDailyLoss
                  /\ pmPosition' = NoPosition
                  /\ pmCall' = [op |-> "executeSell", outcome |-> "trade"]
    /\ pmClock' = pmClock + 1
    /\ UNCHANGED dryRun
    /\ UNCHANGED <<btVars, ultraVars, fetchVars, calc, liveVars>>

NextManager == ExecuteBuy \/ ExecuteSell \/ OrderThrows

SpecManager == InitManager /\ [][NextManager]_vars

----------------------------------------------------------------------------
(* SMCStrategyRefined.checkExitSignalRefined (src/smc-strategy-refined.js),    *)
(* called candle after candle on one open position                            *)

\* config.smcStrategy.refined.trailingStopPercent (config.js:84), in 1/10 percent
TrailingStopPercent == 5
\* line 391: trailingStartProfit = 0.5, in 1/10 percent
TrailingStartProfit == 5
\* calls made on one position
MaxExitCalls == 3

\* profitPercent > x/10 percent, with profitPercent = (currentPrice - entryPrice)
\* / entryPrice * 100 (line 384)
ProfitAbove(pos, currentPrice, x) == (currentPrice - pos.entryPrice) * 1000 > x * pos.entryPrice

\* lines 392-400, times 1000: the stop loss, or above 0.5 % profit the larger
\* of the stop loss and currentPrice * (1 - trailingStopPercent / 100)
EffectiveStopLoss(pos, currentPrice) ==
    IF ProfitAbove(pos, currentPrice, TrailingStartProfit)
    THEN Max2(pos.stopLoss * 1000, currentPrice * (1000 - TrailingStopPercent))
    ELSE pos.stopLoss * 1000

\* mutant: the stop loss is looked at before the in-loss hold
CheckExitSignalRefined_StopFirst(pos, currentPrice, premium, bearishBOS) ==
    IF currentPrice * 1000 <= EffectiveStopLoss(pos, currentPrice)
    THEN [action |-> "SELL",
          reason |-> IF EffectiveStopLoss(pos, currentPrice) > pos.stopLoss * 1000
                     THEN "Trailing stop triggered" ELSE "Stop loss triggered"]
    ELSE IF currentPrice < pos.entryPrice
    THEN [action |-> "HOLD", reason |-> "Waiting for stop loss or reversal"]
    ELSE IF currentPrice >= pos.takeProfit
    THEN [action |-> "SELL", reason |-> "Take profit triggered"]
    ELSE [action |-> "HOLD", reason |-> "Position maintained"]

\* lines 374-495; premium: the price is deep in the premium zone (lines
\* 454-456), bearishBOS: a bearish break of structure was detected (line 473)
CheckExitSignalRefined(pos, currentPrice, premium, bearishBOS) ==
    IF currentPrice < pos.entryPrice
    THEN [action |-> "HOLD", reason |-> "Waiting for stop loss or reversal"]
    ELSE IF currentPrice * 1000 <= EffectiveStopLoss(pos, currentPrice)
    THEN [action |-> "SELL",
          reason |-> IF EffectiveStopLoss(pos, currentPrice) > pos.stopLoss * 1000
                     THEN "Trailing stop triggered" ELSE "Stop loss triggered"]
    ELSE IF currentPrice >= pos.takeProfit
    THEN [action |-> "SELL", reason |-> "Take profit triggered"]
    ELSE IF premium /\ ProfitAbove(pos, currentPrice, 8)
    THEN [action |-> "SELL", reason |-> "Deep premium zone with profit"]
    ELSE IF bearishBOS /\ ProfitAbove(pos, currentPrice, 6)
    THEN [action |-> "SELL", reason |-> "Bearish break of structure (protect profit)"]
    ELSE [action |-> "HOLD", reason |-> "Position maintained"]

\* positions the backtest hands to analyze: entry, stop loss, take profit
ExitPositions ==
    {[entryPrice |-> 1000, stopLoss |-> 995, takeProfit |-> 1018],
     [entryPrice |-> 1000, stopLoss |-> 980, takeProfit |-> 1040],
     [entryPrice |-> 900, stopLoss |-> 895, takeProfit |-> 916]}

\* closes of the candles that follow the entry
ExitPrices == {890, 985, 995, 999, 1000, 1004, 1006, 1007, 1012, 1018, 1030}

\* a position was opened on a BUY of analyze (part_000:434-445); level is the
\* highest effective stop loss the calls so far have computed
InitExit ==
    /\ cfg = DefaultConfig
    /\ BacktesterIdle
    /\ UltraIdle
    /\ FetchIdle
    /\ ManagerIdle
    /\ LiveIdle
    /\ \E pos \in ExitPositions :
         calc = [op |-> "position", position |-> pos, calls |-> 0,
                 level |-> pos.stopLoss * 1000, closedBy |-> "none"]

\* analyze with a position (smc-strategy-refined.js:83-93) on the next candle,
\* and who closes the position on that candle: the strategy's SELL (part_000:
\* 459-502) or else the loop's own checks (504-587)
CheckExitCall ==
    /\ calc.op \in {"position", "checkExitSignalRefined"}
    /\ calc.closedBy = "none"
    /\ calc.calls < MaxExitCalls
    /\ \E currentPrice \in ExitPrices, premium \in BOOLEAN, bearishBOS \in BOOLEAN :
         LET pos == calc.position
             result == CheckExitSignalRefined(pos, currentPrice, premium, bearishBOS)
         IN  calc' = [op |-> "checkExitSignalRefined", position |-> pos,
                      calls |-> calc.calls + 1,
                      currentPrice |-> currentPrice,
                      premium |-> premium, bearishBOS |-> bearishBOS,
                      result |-> result,
                      levelBefore |-> calc.level,
                      level |-> Max2(calc.level, EffectiveStopLoss(pos, currentPrice)),
                      closedBy |-> IF result.action = "SELL" THEN "strategy"
                                   ELSE IF currentPrice <= pos.stopLoss
                                           \/ currentPrice >= pos.takeProfit
                                   THEN "backtest" ELSE "none"]
    /\ UNCHANGED <<btVars, ultraVars, fetchVars, pmVars, liveVars>>

NextExit == CheckExitCall

SpecExit == InitExit /\ [][NextExit]_vars

----------------------------------------------------------------------------
(* calculatePositionSize and the entry of simulate, called on any balance *)

\* riskPerTrade, maxPositionSize and leverage as the environment can set them
SizingConfigs ==
    { DefaultConfig,
      [DefaultConfig EXCEPT !.riskPerTrade = 1, !.maxPositionSize = 50],
      [DefaultConfig EXCEPT !.riskPerTrade = 10, !.maxPositionSize = 150],
      [DefaultConfig EXCEPT !.leverage = 20, !.maxPositionSize = 60],
      [DefaultConfig EXCEPT !.leverage = 1, !.riskPerTrade = 2, !.maxPositionSize = 100] }

\* balances in cents
SizingBalances == {1, 150, 2500, 9999, 20000}

\* entryPrice - stopLossPrice, in tenths
StopDistances == {1, 5, 37, 100}

InitSizing ==
    /\ cfg \in SizingConfigs
    /\ BacktesterIdle
    /\ UltraIdle
    /\ FetchIdle
    /\ ManagerIdle
    /\ LiveIdle
    /\ calc = NoCalc

\* strategy.calculatePositionSize(balance, entryPrice, stopLossPrice)
CalculatePositionSizeCall ==
    /\ \E bal \in SizingBalances, entryPrice \in Prices, d \in StopDistances :
         calc' = [op |-> "calculatePositionSize", balance |-> bal,
                  entryPrice |-> entryPrice, stopLossPrice |-> entryPrice - d,
                  result |-> CalculatePositionSize(bal, entryPrice, entryPrice - d)]
    /\ UNCHANGED <<btVars, ultraVars, fetchVars, pmVars, liveVars>>

\* the entry path of simulate (part_000:386-458) with a free balance of bal
EntryCall ==
    /\ \E bal \in SizingBalances, currentPrice \in Prices :
         calc' = [op |-> "entry", balance |-> bal, entryPrice |-> currentPrice,
                  result |-> EntryPath([Ledger EXCEPT !.balance = bal], currentPrice, 1)]
    /\ UNCHANGED <<btVars, ultraVars, fetchVars, pmVars, liveVars>>

NextSizing == CalculatePositionSizeCall \/ EntryCall

SpecSizing == InitSizing /\ [][NextSizing]_vars

----------------------------------------------------------------------------
(* TradingBot (src/index.js): runTradingLoop called from the setInterval     *)
(* timer of start, each call running up to its next await in one step        *)

\* trading.dailyLossLimit (src/config.js line 35), in percent
DailyLossLimitPercent == 6

\* this.balance as fetchBalance left it, in cents
BotBalances == {2000, 20000}

\* constructor and initialize (lines 18-99), then start (lines 342-364)
InitBot ==
    /\ cfg = DefaultConfig
    /\ BacktesterIdle
    /\ UltraIdle
    /\ FetchIdle
    /\ calc = NoCalc
    /\ dryRun \in BOOLEAN
    /\ pmPosition = NoPosition
    /\ pmDailyTrades = <<>>
    /\ pmDailyLoss = 0
    /\ pmClock = 1
    /\ pmCall = [op |-> "none", outcome |-> "none"]
    /\ BotIdle
    /\ UpbitIdle

\* isDailyLimitReached (src/positionManager.js lines 32-55)
IsDailyLimitReached(bal) ==
    LET lossCount == Cardinality({k \in 1..Len(pmDailyTrades) : pmDailyTrades[k].profit < 0})
    IN  \/ lossCount >= cfg.maxDailyLosses
        \/ Abs(pmDailyLoss) * 100 >= DailyLossLimitPercent * bal

\* canEnterPosition (src/positionManager.js lines 60-71)
CanEnterPosition(bal) ==
    /\ ~pmPosition.open
    /\ ~IsDailyLimitReached(bal)

\* the calls whose market buy order has not been answered
BuysInFlight == {c \in 1..MaxCycles : cyclePc[c] = "buying"}

\* the setInterval callback of start (lines 356-362) fires: the call runs up
\* to await this.fetchCandles (line 173), whether or not the calls before it
\* have returned
CycleStarts(c) ==
    /\ cyclePc[c] = "idle"
    /\ \A b \in 1..(c - 1) : cyclePc[b] # "idle"
    /\ cyclePc' = [cyclePc EXCEPT ![c] = "fetching"]
    /\ UNCHANGED <<cycleOrder, buyLog, lostPositions>>
    /\ UNCHANGED <<btVars, ultraVars, fetchVars, calc, pmVars, upbitVars>>

\* fetchCandles fails or answers with no candles (lines 179-182, 229-243):
\* the call returns
NoMarketData(c) ==
    /\ cyclePc[c] = "fetching"
    /\ cyclePc' = [cyclePc EXCEPT ![c] = "done"]
    /\ UNCHANGED <<cycleOrder, buyLog, lostPositions>>
    /\ UNCHANGED <<btVars, ultraVars, fetchVars, calc, pmVars, upbitVars>>

\* lines 184-226 once the candles and the balance are there, and of
\* handleBuySignal (lines 249-300) and executeBuy (src/positionManager.js
\* lines 76-105) what runs before the order is answered: a BUY signal that
\* canEnterPosition lets through
BuySignal(c) ==
    /\ cyclePc[c] = "fetching"
    /\ \E bal \in BotBalances, quantity \in Quantities, price \in Prices,
          belowMinimum \in BOOLEAN :
         /\ CanEnterPosition(bal)
         /\ IF belowMinimum
            THEN /\ cyclePc' = [cyclePc EXCEPT ![c] = "done"]
                 /\ UNCHANGED <<cycleOrder, buyLog, pmPosition, pmCall, pmClock>>
            ELSE /\ buyLog' = Append(buyLog, [cycle |-> c,
                                              held |-> pmPosition.open,
                                              inFlight |-> BuysInFlight # {}])
                 /\ IF dryRun
                    THEN /\ pmPosition' = BoughtPosition(quantity, price)
                         /\ pmCall' = [op |-> "executeBuy", outcome |-> "position"]
                         /\ pmClock' = pmClock + 1
                         /\ cyclePc' = [cyclePc EXCEPT ![c] = "done"]
                         /\ UNCHANGED cycleOrder
                    ELSE /\ cyclePc' = [cyclePc EXCEPT ![c] = "buying"]
                         /\ cycleOrder' = [cycleOrder EXCEPT ![c] = [quantity |-> quantity]]
                         /\ UNCHANGED <<pmPosition, pmCall, pmClock>>
    /\ UNCHANGED <<lostPositions, dryRun, pmDailyTrades, pmDailyLoss>>
    /\ UNCHANGED <<btVars, ultraVars, fetchVars, calc, upbitVars>>

\* the same lines on a SELL signal with a position (lines 222-223), through
\* handleSellSignal (lines 308-337) and executeSell (src/positionManager.js
\* lines 141-183) up to the order
SellSignal(c) ==
    /\ cyclePc[c] = "fetching"
    /\ pmPosition.open
    /\ \E price \in Prices :
         LET trade == SoldTrade(pmPosition, pmPosition.quantity, price, "signal")
         IN  IF dryRun
             THEN /\ pmDailyTrades' = Append(pmDailyTrades, trade)
                  /\ pmDailyLoss' = IF trade.profit < 0
                                    THEN pmDailyLoss + Abs(trade.profit)
                                    ELSE pmDailyLoss
                  /\ pmPosition' = NoPosition
                  /\ pmCall' = [op |-> "executeSell", outcome |-> "trade"]
                  /\ pmClock' = pmClock + 1
                  /\ cyclePc' = [cyclePc EXCEPT ![c] = "done"]
                  /\ UNCHANGED cycleOrder
             ELSE /\ cyclePc' = [cyclePc EXCEPT ![c] = "selling"]
                  /\ cycleOrder' = [cycleOrder EXCEPT ![c] =
                                      [quantity |-> trade.quantity, profit |-> trade.profit,
                                       entryPrice |-> trade.entryPrice]]
                  /\ UNCHANGED <<pmPosition, pmDailyTrades, pmDailyLoss, pmCall, pmClock>>
    /\ UNCHANGED <<buyLog, lostPositions, dryRun>>
    /\ UNCHANGED <<btVars, ultraVars, fetchVars, calc, upbitVars>>

\* the same lines when neither branch is taken: HOLD, a BUY that
\* canEnterPosition refuses, a SELL without a position (lines 216-226)
NoOrder(c) ==
    /\ cyclePc[c] = "fetching"
    /\ \E bal \in BotBalances, action \in {"BUY", "SELL", "HOLD"} :
         /\ action = "BUY" => ~CanEnterPosition(bal)
         /\ action = "SELL" => ~pmPosition.open
    /\ cyclePc' = [cyclePc EXCEPT ![c] = "done"]
    /\ UNCHANGED <<cycleOrder, buyLog, lostPositions>>
    /\ UNCHANGED <<btVars, ultraVars, fetchVars, calc, pmVars, upbitVars>>

\* createMarketBuyOrder answers (src/positionManager.js lines 105-126):
\* this.currentPosition is assigned from the order, whatever it was
BuyFills(c) ==
    /\ cyclePc[c] = "buying"
    /\ \E price \in Prices :
         pmPosition' = BoughtPosition(cycleOrder[c].quantity, price)
    /\ lostPositions' = IF pmPosition.open THEN lostPositions + 1 ELSE lostPositions
    /\ pmCall' = [op |-> "executeBuy", outcome |-> "position"]
    /\ pmClock' = pmClock + 1
    /\ cyclePc' = [cyclePc EXCEPT ![c] = "done"]
    /\ cycleOrder' = [cycleOrder EXCEPT ![c] = [quantity |-> 0]]
    /\ UNCHANGED <<buyLog, dryRun, pmDailyTrades, pmDailyLoss>>
    /\ UNCHANGED <<btVars, ultraVars, fetchVars, calc, upbitVars>>

\* createMarketSellOrder answers (src/positionManager.js lines 183-207): the
\* trade is recorded and the position cleared; with the position already
\* cleared by another call, reading its entryTime throws and the error is
\* logged by handleSellSignal
SellFills(c) ==
    /\ cyclePc[c] = "selling"
    /\ IF pmPosition.open
       THEN \E price \in Prices :
              LET trade == [entryPrice |-> cycleOrder[c].entryPrice, exitPrice |-> price,
                            quantity |-> cycleOrder[c].quantity,
                            profit |-> cycleOrder[c].profit, reason |-> "signal",
                            entryTime |-> pmPosition.entryTime, exitTime |-> pmClock]
              IN  /\ pmDailyTrades' = Append(pmDailyTrades, trade)
                  /\ pmDailyLoss' = IF trade.profit < 0
                                    THEN pmDailyLoss + Abs(trade.profit)
                                    ELSE pmDailyLoss
                  /\ pmPosition' = NoPosition
                  /\ pmCall' = [op |-> "executeSell", outcome |-> "trade"]
       ELSE /\ pmCall' = [op |-> "executeSell", outcome |-> "order failed"]
            /\ UNCHANGED <<pmPosition, pmDailyTrades, pmDailyLoss>>
    /\ pmClock' = pmClock + 1
    /\ cyclePc' = [cyclePc EXCEPT ![c] = "done"]
    /\ cycleOrder' = [cycleOrder EXCEPT ![c] = [quantity |-> 0]]
    /\ UNCHANGED <<buyLog, lostPositions, dryRun>>
    /\ UNCHANGED <<btVars, ultraVars, fetchVars, calc, upbitVars>>

\* the exchange rejects the order: executeBuy and executeSell rethrow (src/
\* positionManager.js lines 128-135, 208-215), handleBuySignal and
\* handleSellSignal log the error (lines 301-303, 334-336)
OrderRejected(c) ==
    /\ cyclePc[c] \in {"buying", "selling"}
    /\ pmCall' = [op |-> IF cyclePc[c] = "buying" THEN "executeBuy" ELSE "executeSell",
                  outcome |-> "order failed"]
    /\ cyclePc' = [cyclePc EXCEPT ![c] = "done"]
    /\ cycleOrder' = [cycleOrder EXCEPT ![c] = [quantity |-> 0]]
    /\ UNCHANGED <<buyLog, lostPositions, dryRun, pmPosition, pmDailyTrades,
                   pmDailyLoss, pmClock>>
    /\ UNCHANGED <<btVars, ultraVars, fetchVars, calc, upbitVars>>

NextBot ==
    \E c \in 1..MaxCycles :
        \/ CycleStarts(c)
        \/ NoMarketData(c)
        \/ BuySignal(c)
        \/ SellSignal(c)
        \/ NoOrder(c)
        \/ BuyFills(c)
        \/ SellFills(c)
        \/ OrderRejected(c)

SpecBot == InitBot /\ [][NextBot]_vars

----------------------------------------------------------------------------
(* UpbitListingStrategy (src/upbit-listing-strategy.js): the processTweet    *)
(* calls of the stream and the auto-sell timers, each running up to its next *)
(* await in one step, within one calendar day                                *)

\* this.maxOrdersPerDay (line 23: 5 by default), scaled to the tweets looked at
MaxOrdersPerDay == 2

\* the tweets of the stream: two tweets name the same token, one names none
Tweets ==
    { [id |-> 1, symbol |-> "AAA"],
      [id |-> 2, symbol |-> "AAA"],
      [id |-> 3, symbol |-> "BBB"],
      [id |-> 4, symbol |-> ""] }

\* amountToPrecision(symbol, orderSize) (line 253), in contracts
Amounts == {1, 2}

\* constructor (lines 6-35)
InitListing ==
    /\ cfg = DefaultConfig
    /\ BacktesterIdle
    /\ UltraIdle
    /\ FetchIdle
    /\ calc = NoCalc
    /\ ManagerIdle
    /\ LiveIdle

\* the processTweet call h, on reaching an await or on returning
HandlerAt(h, where) == [handlers EXCEPT ![h].pc = where]

\* the data handler of the stream (lines 511-513) calls processTweet, which
\* runs up to await this.findBybitSymbol (lines 429-465): a tweet already
\* processed or without a listing is dropped, any other is marked processed
TweetArrives(h) ==
    /\ handlers[h].pc = "idle"
    /\ \A g \in 1..(h - 1) : handlers[g].pc # "idle"
    /\ \E tweet \in Tweets :
         IF tweet.id \in processedTweets \/ tweet.symbol = ""
         THEN /\ handlers' = [handlers EXCEPT ![h] = [pc |-> "done", tweet |-> tweet.id]]
              /\ UNCHANGED processedTweets
         ELSE /\ processedTweets' = processedTweets \cup {tweet.id}
              /\ handlers' = [handlers EXCEPT ![h] =
                                [pc |-> "lookup", tweet |-> tweet.id,
                                 symbol |-> tweet.symbol, amount |-> 0]]
    /\ UNCHANGED <<ordersPlacedToday, openPositions, sellTimers, pendingTimers,
                   sells, timerIds, buyOrders, sellOrders, sellFailed>>
    /\ UNCHANGED <<btVars, ultraVars, fetchVars, calc, pmVars, botVars>>

\* findBybitSymbol answers (lines 465-472) and placeBuyOrder runs up to its
\* await Promise.all (lines 226-247): the daily limit is tested here
SymbolFound(h) ==
    /\ handlers[h].pc = "lookup"
    /\ handlers' = IF ordersPlacedToday >= MaxOrdersPerDay
                   THEN HandlerAt(h, "done")
                   ELSE HandlerAt(h, "ticker")
    /\ UNCHANGED <<ordersPlacedToday, openPositions, sellTimers, processedTweets,
                   pendingTimers, sells, timerIds, buyOrders, sellOrders, sellFailed>>
    /\ UNCHANGED <<btVars, ultraVars, fetchVars, calc, pmVars, botVars>>

\* the token is not on Bybit (lines 466-469), or an exchange call of
\* processTweet throws and the error is logged (lines 289-292, 485-488)
TweetDropped(h) ==
    /\ handlers[h].pc \in {"lookup", "ticker", "order"}
    /\ handlers' = HandlerAt(h, "done")
    /\ UNCHANGED <<ordersPlacedToday, openPositions, sellTimers, processedTweets,
                   pendingTimers, sells, timerIds, buyOrders, sellOrders, sellFailed>>
    /\ UNCHANGED <<btVars, ultraVars, fetchVars, calc, pmVars, botVars>>

\* the order amount and the ticker are there (lines 244-263): the market buy
\* order is submitted
BuyOrderSent(h) ==
    /\ handlers[h].pc = "ticker"
    /\ \E amount \in Amounts :
         /\ handlers' = [handlers EXCEPT ![h].pc = "order", ![h].amount = amount]
         /\ buyOrders' = Append(buyOrders,
                                [handler |-> h, tweet |-> handlers[h].tweet,
                                 symbol |-> handlers[h].symbol, amount |-> amount,
                                 timer |-> 0])
    /\ UNCHANGED <<ordersPlacedToday, openPositions, sellTimers, processedTweets,
                   pendingTimers, sells, timerIds, sellOrders, sellFailed>>
    /\ UNCHANGED <<btVars, ultraVars, fetchVars, calc, pmVars, botVars>>

\* createMarketBuyOrder answers (lines 263-287): the order is counted, the
\* position stored under its symbol, and scheduleAutoSell (lines 327-341)
\* sets a timer and stores it under the symbol, over any entry already there
BuyOrderFills(h) ==
    /\ handlers[h].pc = "order"
    /\ ordersPlacedToday' = ordersPlacedToday + 1
    /\ openPositions' = [openPositions EXCEPT ![handlers[h].symbol] = handlers[h].amount]
    /\ timerIds' = timerIds + 1
    /\ pendingTimers' = pendingTimers \cup
                          {[id |-> timerIds + 1, symbol |-> handlers[h].symbol,
                            amount |-> handlers[h].amount]}
    /\ sellTimers' = [sellTimers EXCEPT ![handlers[h].symbol] = timerIds + 1]
    /\ buyOrders' = [k \in 1..Len(buyOrders) |->
                       IF buyOrders[k].handler = h
                       THEN [buyOrders[k] EXCEPT !.timer = timerIds + 1]
                       ELSE buyOrders[k]]
    /\ handlers' = HandlerAt(h, "done")
    /\ UNCHANGED <<processedTweets, sells, sellOrders, sellFailed>>
    /\ UNCHANGED <<btVars, ultraVars, fetchVars, calc, pmVars, botVars>>

\* a timer of scheduleAutoSell fires (lines 333-335) and executeSellOrder runs
\* up to await fetchTicker (lines 344-357): without a position stored under
\* the symbol it returns
TimerFires(timer) ==
    /\ timer \in pendingTimers
    /\ pendingTimers' = pendingTimers \ {timer}
    /\ sells' = IF openPositions[timer.symbol] = 0 THEN sells ELSE sells \cup {timer}
    /\ UNCHANGED <<ordersPlacedToday, openPositions, sellTimers, processedTweets,
                   handlers, timerIds, buyOrders, sellOrders, sellFailed>>
    /\ UNCHANGED <<btVars, ultraVars, fetchVars, calc, pmVars, botVars>>

\* createMarketSellOrder answers (lines 385-409): the amount the timer was set
\* with is sold and both entries of the symbol are deleted
SellOrderFills(timer) ==
    /\ timer \in sells
    /\ sells' = sells \ {timer}
    /\ sellOrders' = Append(sellOrders, [timer |-> timer.id, symbol |-> timer.symbol,
                                         amount |-> timer.amount])
    /\ openPositions' = [openPositions EXCEPT ![timer.symbol] = 0]
    /\ sellTimers' = [sellTimers EXCEPT ![timer.symbol] = 0]
    /\ UNCHANGED <<ordersPlacedToday, processedTweets, handlers, pendingTimers,
                   timerIds, buyOrders, sellFailed>>
    /\ UNCHANGED <<btVars, ultraVars, fetchVars, calc, pmVars, botVars>>

\* an exchange call of executeSellOrder throws (lines 410-415): both entries
\* of the symbol are deleted all the same
SellOrderFails(timer) ==
    /\ timer \in sells
    /\ sells' = sells \ {timer}
    /\ sellFailed' = TRUE
    /\ openPositions' = [openPositions EXCEPT ![timer.symbol] = 0]
    /\ sellTimers' = [sellTimers EXCEPT ![timer.symbol] = 0]
    /\ UNCHANGED <<ordersPlacedToday, processedTweets, handlers, pendingTimers,
                   timerIds, buyOrders, sellOrders>>
    /\ UNCHANGED <<btVars, ultraVars, fetchVars, calc, pmVars, botVars>>

NextListing ==
    \/ \E h \in 1..MaxTweets :
         \/ TweetArrives(h)
         \/ SymbolFound(h)
         \/ TweetDropped(h)
         \/ BuyOrderSent(h)
         \/ BuyOrderFills(h)
    \/ \E timer \in pendingTimers : TimerFires(timer)
    \/ \E timer \in sells : SellOrderFills(timer)
    \/ \E timer \in sells : SellOrderFails(timer)

SpecListing == InitListing /\ [][NextListing]_vars

----------------------------------------------------------------------------
(* Properties *)

Last(seq) == seq[Len(seq)]

NoLiquidation(ts) == \A k \in 1..Len(ts) : ts[k].reason # "LIQUIDATION"

Grew == Len(trades') = Len(trades) + 1

\* a step of the loop that went through candle i
CandleStep == pc = "loop" /\ i' = i + 1

GateStops == {"maxTrades", "balance"}

\* C1: conservation in Backtester.simulate. Once the run is over and no trade
\* was a liquidation, balance = initialBalance + the sum of the trades' net
\* profit: the entry fee is debited once, at entry, and the exit fee once, at
\* the close.
C1_Conservation ==
    (pc \in {"display", "done"} /\ NoLiquidation(trades))
        => balance = cfg.initialBalance + SumProfit(trades)

C1_Witness ==
    /\ pc = "done"
    /\ Len(trades) = 2
    /\ NoLiquidation(trades)
    /\ trades[1].profit > 0
    /\ trades[2].profit < 0
    /\ trades[1].fees > 0

\* C2: conservation in UltraTopPerformerBacktest in both margin modes. Whenever
\* every position has been closed, balance = initialBalance + the sum of the
\* trades' net profit, with marginMode isolated as with cross.
C2_ConservationBothModes ==
    (pc = "idle" /\ ~currentPosition.open)
        => uBalance = cfg.initialBalance + SumProfit(uTrades)

\* C3: single position. No two trades overlap: a trade is entered on a candle
\* strictly after the one on which the trade before it was closed, and the
\* open position was entered strictly after every recorded close.
C3_SinglePosition ==
    /\ \A a, b \in 1..Len(trades) : a < b => trades[a].exitTime < trades[b].entryTime
    /\ \A a \in 1..Len(trades) : trades[a].entryTime <= trades[a].exitTime
    /\ position.open => \A a \in 1..Len(trades) : trades[a].exitTime < position.entryTime

C3_Witness ==
    /\ Len(trades) = 2
    /\ trades[2].entryTime = trades[1].exitTime + 1
    /\ trades[1].entryTime < trades[1].exitTime

\* C4 as stated: a position open when the loop ends is closed by exactly one
\* more trade, at the close of the last candle of the sequence, with reason
\* "End of period" and exitTime the last candle's timestamp.
C4_Original ==
    [][(pc = "cleanup" /\ position.open) =>
          /\ Grew
          /\ Last(trades').reason = "End of period"
          /\ Last(trades').exit = Last(candles).c
          /\ Last(trades').exitTime = Last(candles).t
          /\ ~position'.open]_vars

\* C4 amended: a position open when the loop ends is closed by exactly one
\* more trade, with reason "End of backtest period", at the close price and
\* timestamp of the last candle the loop went through (the last candle of the
\* sequence when the loop ran out of candles, the candle before the gated one
\* when a safety gate stopped it); after that no position is open and the
\* margin is back in balance.
C4_TerminationCloses ==
    /\ [][(pc = "cleanup" /\ position.open) =>
            /\ Grew
            /\ Last(trades').reason = "End of backtest period"
            /\ Last(trades').exit = candles[i - 1].c
            /\ Last(trades').exitTime = candles[i - 1].t
            /\ (stoppedBy = "candles" => i - 1 = Len(candles))
            /\ ~position'.open
            /\ balance' = balance + position.marginUsed + Last(trades').profit
                              + position.entryFee]_vars
    /\ [](pc \in {"display", "done"} => ~position.open)

C4_Witness ==
    /\ pc = "done"
    /\ stoppedBy = "balance"
    /\ Len(trades) = 1
    /\ Last(trades).reason = "End of backtest period"
    /\ Last(trades).exitTime < Last(candles).t

\* C5: liquidation accounting. The step that liquidates a position leaves
\* balance unchanged, records a trade with reason LIQUIDATION, net profit
\* -(marginUsed + entryFee), profitPercent -100 and fees = entryFee, and
\* leaves no position.
C5_Liquidation ==
    [][(CandleStep /\ Grew /\ Last(trades').reason = "LIQUIDATION") =>
          /\ position.open
          /\ balance' = balance
          /\ Last(trades').profit = -(position.marginUsed + position.entryFee)
          /\ Last(trades').profitPercent = -100 * PctScale
          /\ Last(trades').fees = position.entryFee
          /\ ~position'.open]_vars

C5_Witness ==
    /\ pc = "loop"
    /\ Len(trades) = 1
    /\ trades[1].reason = "LIQUIDATION"
    /\ trades[1].fees > 0
    /\ balance < cfg.initialBalance

C7_OneClosePerCandle ==
    [][/\ Len(trades') <= Len(trades) + 1
       /\ (CandleStep /\ Len(trades') > Len(trades)) => ~position'.open]_vars

\* a Sell realized on a candle whose close was at or below the stop loss
C7_Witness ==
    \E k \in 1..Len(trades) :
        /\ trades[k].reason \in SellReasons
        /\ trades[k].exit <= CalculateExitPrices(trades[k].entry).stopLoss

\* the reference: peak and maximal drawdown recomputed from the balances
RECURSIVE RefPeak(_, _)
RefPeak(log, peak) ==
    IF log = <<>> THEN peak
    ELSE RefPeak(Tail(log), IF log[1] > peak THEN log[1] ELSE peak)

RECURSIVE RefMaxDrawdown(_, _, _)
RefMaxDrawdown(log, peak, maxDD) ==
    IF log = <<>> THEN maxDD
    ELSE LET pk == IF log[1] > peak THEN log[1] ELSE peak
             dd == ((pk - log[1]) * 100 * PctScale) \div pk
         IN  RefMaxDrawdown(Tail(log), pk, IF dd > maxDD THEN dd ELSE maxDD)

\* C8: drawdown tracking. peakBalance and maxDrawdown never decrease, and
\* maxDrawdown is the maximum, over the candles gone through, of
\* (peak - balance)/peak*100 with peak the running maximum of balance (from
\* the initial balance on) after each candle.
C8_Drawdown ==
    /\ [][peakBalance' >= peakBalance /\ maxDrawdown' >= maxDrawdown]_vars
    /\ [](/\ peakBalance = RefPeak(balanceLog, cfg.initialBalance)
          /\ maxDrawdown = RefMaxDrawdown(balanceLog, cfg.initialBalance, 0))

C8_Witness ==
    /\ pc = "done"
    /\ Len(balanceLog) >= 4
    /\ peakBalance > cfg.initialBalance
    /\ maxDrawdown > Drawdown(peakBalance, balance)
    /\ Drawdown(peakBalance, balance) > 0

ReportFields ==
    {"produced", "initialBalance", "leverage", "finalBalance", "totalReturn",
     "totalProfitLoss", "totalFees", "maxDrawdown", "totalTrades", "winningTrades",
     "losingTrades", "winRate", "profitFactor", "avgProfit", "avgWin", "avgLoss",
     "bestTrade", "worstTrade", "profitable"}

Rejections == {"belowMinimum", "insufficientMargin", "insufficientFees"}

\* C12: rejected entries are no-ops. A candle on which the entry is rejected
\* (position value below the minimum order value, or balance below margin, or
\* below margin + entry fee) leaves balance and trades unchanged and position
\* null, and the loop goes on with the next candle; a position is opened only
\* with positionValue >= the minimum and balance >= marginRequired + entryFee,
\* and balance then decreases by exactly marginRequired + entryFee.
C12_RejectedEntryNoOp ==
    [][CandleStep =>
         /\ entryOutcome' \in Rejections =>
               /\ ~position.open
               /\ position' = NoPosition
               /\ balance' = balance
               /\ trades' = trades
               /\ pc' = "loop"
               /\ i' = i + 1
         /\ (~position.open /\ position'.open) =>
               /\ entryOutcome' = "opened"
               /\ position'.positionValue >= MinOrderValue
               /\ balance >= position'.marginUsed + position'.entryFee
               /\ balance' = balance - (position'.marginUsed + position'.entryFee)
         /\ entryOutcome' = "opened" => (~position.open /\ position'.open)]_vars

\* the third candle in a row on which the entry fee did not fit
C12_Witness ==
    /\ pc = "loop"
    /\ i > 3
    /\ entryOutcome = "insufficientFees"
    /\ balance = cfg.initialBalance
    /\ ~position.open

C12_WitnessBelowMinimum ==
    pc = "loop" /\ i > 2 /\ entryOutcome = "belowMinimum" /\ balance >= MinBalance

C12_WitnessMargin ==
    pc = "loop" /\ i > 2 /\ entryOutcome = "insufficientMargin"

\* C14: threshold fill price. A trade closed by the loop's own stop-loss
\* (take-profit) check exits at the position's stopLoss (takeProfit), not at
\* the candle close, and its gross profit, exit fee, net profit and the credit
\* to balance are computed from that price.
C14_ThresholdFill ==
    [][(CandleStep /\ Grew /\ Last(trades').reason \in {"Stop Loss", "Take Profit"}) =>
          LET t == Last(trades')
              threshold == IF t.reason = "Stop Loss"
                           THEN position.stopLoss ELSE position.takeProfit
              exitValue == (position.quantity * threshold) \div UnitScale
              gross == exitValue - position.positionValue
              exitFee == (exitValue * cfg.taker) \div 1000
          IN  /\ position.open
              /\ t.reason = "Stop Loss" => candles[i].c <= position.stopLoss
              /\ t.reason = "Take Profit" => candles[i].c >= position.takeProfit
              /\ t.exit = threshold
              /\ t.fees = position.entryFee + exitFee
              /\ t.profit = gross - (position.entryFee + exitFee)
              /\ t.profitPercent = (gross * 100 * PctScale) \div position.positionValue
              /\ balance' = balance + position.marginUsed + gross - exitFee]_vars

\* a stop loss and a take profit, both filled away from the candle close
C14_Witness ==
    /\ Len(trades) = 2
    /\ trades[1].reason = "Take Profit"
    /\ trades[1].exit < candles[trades[1].exitTime].c
    /\ trades[2].reason = "Stop Loss"
    /\ trades[2].exit > candles[trades[2].exitTime].c

\* C15: stop losses are enforced exactly at the configured percentage. Every
\* trade closed because the price fell to or below its stop-loss price, by the
\* loop's own check ("Stop Loss") or by the strategy's ("Stop loss
\* triggered"), exits at the stop-loss price itself.
C15_StopLossExact ==
    \A k \in 1..Len(trades) :
        trades[k].reason \in {"Stop Loss", "Stop loss triggered"}
            => trades[k].exit = CalculateExitPrices(trades[k].entry).stopLoss

\* C16: daily limits only gate entries. In no simulation loop is an open
\* position closed because a daily limit was reached: no trade of the ultra
\* backtest is a close for the daily loss limit.
C16_DailyLimitsOnlyGate ==
    \A k \in 1..Len(uTrades) : uTrades[k].reason # "Daily loss limit reached"

\* the trades closed on the given day
TradesOfDay(ts, day) == {k \in 1..Len(ts) : DayOf(ts[k].exitTime) = day}

\* C17: daily entry gate. A position is opened only while the number of
\* trades made that day is below the configured daily maximum, and on the
\* first candle of a new day the daily counters start again from zero.
C17_DailyEntryGate ==
    [][CandleStep =>
         /\ (~position.open /\ position'.open) =>
               Cardinality(TradesOfDay(trades, DayOf(candles[i].t))) < cfg.maxDailyLosses
         /\ (i > 1 /\ DayOf(candles[i].t) # DayOf(candles[i - 1].t)) =>
               /\ dailyTrades' <= 1
               /\ ~Grew => (dailyTrades' = 0 /\ dailyLoss' = 0)]_vars

Elements(seq) == {seq[k] : k \in 1..Len(seq)}

MultiBatch == totalCandlesNeeded > BATCH_SIZE

C19_BatchFailure ==
    [][(fpc = "call" /\ MultiBatch /\ lastCall' = "failed"
             /\ attempts' = InitialRetries) =>
          IF allCandles = <<>>
          THEN fpc' = "aborted" /\ fetched' = <<>>
          ELSE /\ fpc' = "simulate"
               /\ fetched' # <<>>
               /\ Elements(fetched') \subseteq Elements(allCandles)
               /\ Last(fetched') = Last(allCandles)
               /\ allCandles' = allCandles]_vars

\* the second batch failed three times and the first one is simulated
C19_Witness ==
    /\ fpc = "simulate"
    /\ MultiBatch
    /\ lastCall = "failed"
    /\ batchIndex >= 1
    /\ attempts = InitialRetries
    /\ Len(fetched) >= 2

\* C20: bounded retry. fetchCandlesBatch calls the exchange at most 3 times for
\* one batch; the first call that succeeds ends the batch without another call
\* for it; a failure before the third is followed by another call for the same
\* batch and the third failure ends the calls; a whole fetch makes at most
\* 3 * ceil(totalCandlesNeeded / BATCH_SIZE) calls, and it terminates.
C20_BoundedRetry ==
    /\ [][fpc = "call" => (calls' = calls + 1 /\ attempts < InitialRetries)]_vars
    /\ [][(fpc = "call" /\ lastCall' = "ok") => (fpc' # "call" \/ attempts' = 0)]_vars
    /\ [][(fpc = "call" /\ lastCall' = "failed") =>
            IF attempts' < InitialRetries
            THEN fpc' = "call" /\ batchIndex' = batchIndex /\ attempts' = attempts + 1
            ELSE fpc' # "call"]_vars
    /\ [](calls <= InitialRetries * Batches(totalCandlesNeeded))
    /\ <>(fpc # "call")

\* every batch took its three calls
C20_Witness ==
    /\ fpc # "call"
    /\ Batches(totalCandlesNeeded) >= 2
    /\ calls = InitialRetries * Batches(totalCandlesNeeded)

\* C13: balance never goes negative from a single position. balance >= 0 in
\* every state, and no close takes money out of balance: the amount credited
\* back (marginUsed + grossProfit - exitFee) is never negative.
C13_BalanceNonNegative ==
    /\ [](balance >= 0)
    /\ [][(position.open /\ ~position'.open) => balance' >= balance]_vars

\* C11: a strategy that throws inside analyze is treated as Hold for that
\* candle. The step on which analyze throws leaves balance, position and
\* trades unchanged and the loop goes on with the next candle, so that the run
\* never ends without having gone through displayResults.
C11_ThrowIsHold ==
    /\ [][(pc = "loop" /\ stoppedBy' = "error") =>
            /\ pc' = "loop"
            /\ i' = i + 1
            /\ UNCHANGED <<balance, position, trades>>]_vars
    /\ [](pc # "failed")

\* the value the risk-sized quantity would have, before the cap
NaiveValue(bal, entryPrice, stopLossPrice) ==
    LET riskAmount == (bal * cfg.riskPerTrade) \div 1000
        quantity == (riskAmount * UnitScale) \div (entryPrice - stopLossPrice)
    IN  (quantity * entryPrice) \div UnitScale

\* C21: position-size cap. For every balance > 0 and entryPrice > stopLoss > 0,
\* calculatePositionSize returns positionValue <= balance * maxPositionSize and
\* quantity * entryPrice = positionValue (up to the rounding of one cent of
\* value or one unit of quantity); over the cap the value is the cap and the quantity is scaled down to
\* it. The margin simulate withholds for a position is at most maxPositionSize
\* times the free balance at entry.
C21_PositionSizeCap ==
    /\ calc.op = "calculatePositionSize" =>
          LET r == calc.result
              rest == r.positionValue * UnitScale - r.quantity * calc.entryPrice
              naive == NaiveValue(calc.balance, calc.entryPrice, calc.stopLossPrice)
              cap == (calc.balance * cfg.maxPositionSize) \div 100
          IN  /\ r.positionValue * 100 <= calc.balance * cfg.maxPositionSize
              /\ rest > -UnitScale
              /\ rest < calc.entryPrice
              /\ naive > cap =>
                    /\ r.positionValue = cap
                    /\ r.quantity = (cap * UnitScale) \div calc.entryPrice
              /\ naive <= cap => r.positionValue = naive
    /\ (calc.op = "entry" /\ calc.result.position.open) =>
          /\ calc.result.position.marginUsed * 100 <= calc.balance * cfg.maxPositionSize
          /\ calc.result.balance = calc.balance - calc.result.position.marginUsed
                                      - calc.result.position.entryFee

\* a capped size whose quantity was scaled down
C21_Witness ==
    /\ calc.op = "calculatePositionSize"
    /\ NaiveValue(calc.balance, calc.entryPrice, calc.stopLossPrice)
          > 2 * calc.result.positionValue
    /\ calc.result.positionValue = (calc.balance * cfg.maxPositionSize) \div 100
    /\ calc.result.quantity > 0

C21_WitnessUncapped ==
    /\ calc.op = "calculatePositionSize"
    /\ calc.result.positionValue > 0
    /\ calc.result.positionValue * 100 < calc.balance * cfg.maxPositionSize - 100

C21_WitnessEntry ==
    /\ calc.op = "entry"
    /\ calc.result.position.open
    /\ cfg.leverage = 20
    /\ calc.result.position.marginUsed * 100 = calc.balance * cfg.maxPositionSize
\* C22: ledger misuse is rejected, not absorbed. executeBuy called with a
\* position open fails with an error of its own and leaves the position as it
\* was; executeSell called with no position fails with an error of its own and
\* leaves position, trades and daily loss as they were.
C22_MisuseRejected ==
    [][/\ (pmCall'.op = "executeBuy" /\ pmClock' # pmClock /\ pmPosition.open) =>
            /\ pmCall'.outcome = "PositionAlreadyOpen"
            /\ pmPosition' = pmPosition
       /\ (pmCall'.op = "executeSell" /\ pmClock' # pmClock /\ ~pmPosition.open) =>
            /\ pmCall'.outcome = "NoOpenPosition"
            /\ UNCHANGED <<pmPosition, pmDailyTrades, pmDailyLoss>>]_vars
\* C23: the refined SMC strategy never exits early in a loss. A call of its
\* exit logic with the current price below the entry price returns HOLD, never
\* SELL, so a position the strategy sells is sold at or above its entry and a
\* losing position is left to the backtest's own closes.
C23_NoExitInLoss ==
    calc.op = "checkExitSignalRefined" =>
        /\ calc.currentPrice < calc.position.entryPrice =>
              (calc.result.action = "HOLD" /\ calc.closedBy # "strategy")
        /\ calc.closedBy = "strategy" => calc.currentPrice > calc.position.entryPrice

\* held at a price below the stop loss, with every bearish sign present
C23_Witness ==
    /\ calc.op = "checkExitSignalRefined"
    /\ calc.currentPrice < calc.position.stopLoss
    /\ calc.premium /\ calc.bearishBOS
    /\ calc.result.action = "HOLD"
    /\ calc.closedBy = "backtest"
    /\ calc.calls = 2

\* C24: trailing stop. Once a call has seen more than 0.5 % profit the
\* trailing stop is above the stop loss, and a later call whose price, still
\* not below the entry, has pulled back to that trailing level returns SELL
\* with reason "Trailing stop triggered".
C24_TrailingStop ==
    (/\ calc.op = "checkExitSignalRefined"
     /\ calc.levelBefore > calc.position.stopLoss * 1000
     /\ calc.currentPrice * 1000 <= calc.levelBefore
     /\ calc.currentPrice >= calc.position.entryPrice)
        => /\ calc.result.action = "SELL"
           /\ calc.result.reason = "Trailing stop triggered"
\* C25: trade-count ceiling. In every state of simulate, the end-of-period
\* close included, at most MAX_TRADES trades are recorded; when the ceiling is
\* reached no position is open, and the loop is left by the gate's break, not
\* by an error, on to the report.
C25_TradeCeiling ==
    /\ Len(trades) <= MAX_TRADES
    /\ Len(trades) = MAX_TRADES => ~position.open
    /\ stoppedBy = "maxTrades" =>
          (Len(trades) = MAX_TRADES /\ pc \in {"cleanup", "display", "done"})
    /\ (pc = "done" /\ stoppedBy = "maxTrades") => report.produced

\* the gate stopped the loop with candles left, and the end-of-period close
\* had nothing to add
C25_Witness ==
    /\ pc = "done"
    /\ stoppedBy = "maxTrades"
    /\ Len(trades) = MAX_TRADES
    /\ i <= Len(candles)
    /\ Last(trades).reason # "End of backtest period"

\* the end-of-period close recorded the last trade the ceiling allows
C25_WitnessForcedClose ==
    /\ pc = "done"
    /\ stoppedBy = "candles"
    /\ Len(trades) = MAX_TRADES
    /\ Last(trades).reason = "End of backtest period"
\* C26: no look-ahead. The strategy is given candles[0..i] and the position,
\* so with a deterministic strategy two candle arrays that agree up to the
\* last candle gone through have led to the same ledger: balance, position,
\* trades, peak and maximal drawdown, whatever the candles after it are.
C26_NoLookAhead ==
    (calc.op = "second run"
     /\ SubSeq(candles, 1, i - 1) = SubSeq(calc.candles, 1, i - 1))
        => MainLedger = calc.ledger

\* two candles gone through with a trade made, and arrays that differ from
\* the third candle on
C26_Witness ==
    /\ calc.op = "second run"
    /\ i = 3
    /\ SubSeq(candles, 1, 2) = SubSeq(calc.candles, 1, 2)
    /\ candles[3].c # calc.candles[3].c
    /\ candles[4].c # calc.candles[4].c
    /\ Len(trades) = 1
C27_WitnessLiquidation ==
    /\ Len(trades) >= 1
    /\ Last(trades).reason = "LIQUIDATION"
    /\ Last(trades).exit < CalculateExitPrices(Last(trades).entry).stopLoss
\* the sum of the net profits of the trades whose index is in S
RECURSIVE ProfitOver(_, _)
ProfitOver(ts, S) ==
    IF S = {} THEN 0
    ELSE LET k == CHOOSE x \in S : TRUE IN ts[k].profit + ProfitOver(ts, S \ {k})

\* C28: report metrics. profitFactor is |avgWin / avgLoss| with avgWin and
\* avgLoss the mean net profit of the winning and of the losing trades, and 0
\* when no trade lost; winRate is winningTrades / totalTrades * 100;
\* totalReturn is (finalBalance - initialBalance) / initialBalance * 100; the
\* best and the worst trade have the maximal and the minimal net profit.
C28_ReportMetrics ==
    report.produced =>
        LET n == Len(trades)
            W == {k \in 1..n : trades[k].profit > 0}
            Lo == {k \in 1..n : trades[k].profit < 0}
            avgWin == IF W = {} THEN 0 ELSE ProfitOver(trades, W) \div Cardinality(W)
            avgLossAbs == IF Lo = {} THEN 0
                          ELSE (-ProfitOver(trades, Lo)) \div Cardinality(Lo)
        IN  /\ report.winningTrades = Cardinality(W)
            /\ report.losingTrades = Cardinality(Lo)
            /\ report.avgWin = avgWin
            /\ report.avgLoss = -avgLossAbs
            /\ Lo = {} => report.profitFactor = 0
            /\ Lo # {} => report.profitFactor = (avgWin * PctScale) \div avgLossAbs
            /\ report.profitFactor >= 0
            /\ report.winRate = (Cardinality(W) * 100 * PctScale) \div n
            /\ report.totalReturn
                  = ((balance - cfg.initialBalance) * 100 * PctScale) \div cfg.initialBalance
            /\ \E k \in 1..n : trades[k].profit = report.bestTrade
            /\ \E k \in 1..n : trades[k].profit = report.worstTrade
            /\ \A k \in 1..n : /\ trades[k].profit <= report.bestTrade
                                /\ trades[k].profit >= report.worstTrade

\* a report over a winning and a losing trade
C28_Witness ==
    /\ report.produced
    /\ report.winningTrades = 1
    /\ report.losingTrades = 1
    /\ report.profitFactor > 0
    /\ report.winRate = 50 * PctScale
    /\ report.bestTrade > 0
    /\ report.worstTrade < 0

\* a report over winning trades only: profitFactor 0
C28_WitnessNoLoss ==
    /\ report.produced
    /\ report.winningTrades = 2
    /\ report.losingTrades = 0
    /\ report.profitFactor = 0
    /\ report.totalReturn > 0
\* C29: the high-water mark covers the final balance. When simulate has
\* returned, peakBalance >= balance and maxDrawdown >= (peakBalance - balance)
\* / peakBalance * 100, also when the forced end-of-period close was the last
\* change of balance.
C29_HighWaterMark ==
    pc \in {"display", "done"} =>
        /\ peakBalance >= balance
        /\ maxDrawdown >= Drawdown(peakBalance, balance)
\* C30: conservation also holds with liquidations. Once simulate has
\* returned, balance = initialBalance + the sum of the net profit of all
\* trades, liquidated ones included; and after every iteration balance + the
\* margin of the open position = initialBalance + the sum of the net profit
\* of the closed trades - the entry fee of the open position.
C30_ConservationWithLiquidations ==
    /\ pc \in {"display", "done"} => balance = cfg.initialBalance + SumProfit(trades)
    /\ pc \in {"loop", "cleanup"} =>
          balance + (IF position.open THEN position.marginUsed ELSE 0)
            = cfg.initialBalance + SumProfit(trades)
                - (IF position.open THEN position.entryFee ELSE 0)

\* a finished run with a liquidated trade and a trade closed otherwise
C30_Witness ==
    /\ pc = "done"
    /\ Len(trades) = 2
    /\ trades[1].reason = "LIQUIDATION"
    /\ trades[2].reason # "LIQUIDATION"
    /\ trades[2].fees > 0

\* an open position entered after a liquidation
C30_WitnessOpen ==
    /\ pc = "loop"
    /\ Len(trades) = 1
    /\ trades[1].reason = "LIQUIDATION"
    /\ position.open
    /\ position.entryFee > 0
\* C31: the balance-floor gate reflects a blown account. Whenever the gate
\* (balance < 10) stops the loop no position is open, so that the equity,
\* balance plus the margin withheld, is itself below the floor.
C31_BalanceGateBlownAccount ==
    (pc = "cleanup" /\ stoppedBy = "balance") =>
        /\ ~position.open
        /\ balance + (IF position.open THEN position.marginUsed ELSE 0) < MinBalance

\* C32: the live bot holds a single position under overlapping cycles. In
\* every interleaving of runTradingLoop calls, no market buy is submitted
\* while a position is open or while another buy is still unanswered, and a
\* recorded position is never replaced by a second buy.
C32_SinglePosition ==
    /\ \A k \in 1..Len(buyLog) : ~buyLog[k].held /\ ~buyLog[k].inFlight
    /\ Cardinality(BuysInFlight) <= 1
    /\ lostPositions = 0


\* C33: the daily order cap holds under concurrent tweets. Within one calendar
\* day, whatever the interleaving of processTweet and placeBuyOrder calls, no
\* more than maxOrdersPerDay market buy orders are submitted, and one tweet id
\* leads to at most one buy order.
C33_DailyOrderCap ==
    /\ Len(buyOrders) <= MaxOrdersPerDay
    /\ \A j, k \in 1..Len(buyOrders) :
         buyOrders[j].tweet = buyOrders[k].tweet => j = k

\* the part of C33 about tweet ids, on its own
C33_OneOrderPerTweet ==
    \A j, k \in 1..Len(buyOrders) :
        buyOrders[j].tweet = buyOrders[k].tweet => j = k

\* the timers that have not fired, or whose executeSellOrder has not returned
TimersAtWork == {timer.id : timer \in pendingTimers \cup sells}

\* C34: every listing buy is auto-sold. Once the timer of a filled market buy
\* has fired and its executeSellOrder has returned, with no sell order
\* rejected, a market sell of the same amount for that symbol was made by that
\* timer, also when the symbol was bought again before the first timer fired;
\* and with no timer or buy left at work for a symbol, it has neither an
\* open-position entry nor a sell timer.
C34_EveryBuyAutoSold ==
    /\ \A k \in 1..Len(buyOrders) :
         (buyOrders[k].timer # 0 /\ buyOrders[k].timer \notin TimersAtWork /\ ~sellFailed)
             => \E j \in 1..Len(sellOrders) :
                  /\ sellOrders[j].timer = buyOrders[k].timer
                  /\ sellOrders[j].symbol = buyOrders[k].symbol
                  /\ sellOrders[j].amount = buyOrders[k].amount
    /\ \A s \in Symbols :
         (/\ \A timer \in pendingTimers \cup sells : timer.symbol # s
          /\ \A h \in 1..MaxTweets :
               handlers[h].pc \in {"lookup", "ticker", "order"} => handlers[h].symbol # s)
             => openPositions[s] = 0 /\ sellTimers[s] = 0

====
